---- MODULE Spec2Model ----
(***************************************************************************)
(* A model of the glTF/GLB parser of the PlayCanvas engine                 *)
(* (src/unnamed/part_002, "glb-parser.js"): the chunk reader parseGlb, the *)
(* asynchronous pipeline GlbParser.parseAsync (buffers, buffer views,      *)
(* textures, createResources), createMeshGroups and createNodes.           *)
(*                                                                         *)
(* The module holds several specifications over one set of variables:      *)
(*   Spec      - one GlbParser.parseAsync call and all its callbacks       *)
(*   SpecGlb   - parseGlb applied to bounded containers                    *)
(*   SpecNodes - createNodes applied to bounded node lists                 *)
(*   SpecMesh  - createMeshGroups applied to bounded mesh lists            *)
(* The variables a specification does not use stay at their idle values.   *)
(***************************************************************************)
EXTENDS Integers, Sequences, FiniteSets, TLC

VARIABLES
    filename,       \* parseChunk: "glb" when the filename ends in .glb, else "gltf"
    data,           \* the bytes handed to the parser (a sequence of 0..255)
    src,            \* SpecGlb: the fields the container in data was written from
    chunks,         \* what parseGlb / parseChunk handed to its callback
    glbPc,          \* SpecGlb: "ready" before the call of parseGlb, then "done"
    gltfMeshes,     \* gltf.meshes: a list of meshes, each a list of primitives
    hasAccessors,   \* gltf.accessors is present and not empty
    dracoMode,      \* what window.DracoDecoderModule does: "ok", "fail", "absent"
    meshGroups,     \* what createMeshGroups returned and reported
    meshPc,         \* SpecMesh: "ready" before the call, then "done"
    gltfNodes,      \* gltf.nodes: for every node its children list (node indices from 1)
    nodes,          \* what createNodes built: every entity's parent (0: none) and children
    nodesPc,        \* SpecNodes: "ready" before the call, then "done"
    pc,             \* parseAsync: the last stage entered
    bufSt,          \* loadBuffersAsync: what every buffer waits for
    buffers,        \* loadBuffersAsync: result, the bytes of every buffer
    bufRemaining,   \* loadBuffersAsync: remaining
    viewSt,         \* parseBufferViewsAsync: what every buffer view waits for
    viewRemaining,  \* parseBufferViewsAsync: remaining
    nImages,        \* gltf.images.length
    nTextures,      \* gltf.textures.length
    texSt,          \* loadTexturesAsync: what every texture waits for
    texImage,       \* the image index of every texture, once known (0 before)
    assets,         \* loadTexturesAsync: assets, one per image
    textures,       \* loadTexturesAsync: textures, the texture indices per image
    texRemaining,   \* loadTexturesAsync: remaining
    loadsStarted,   \* per image, the calls of loadImageAsync
    registryLoads,  \* per image, the calls of registry.load
    textureAssets,  \* what loadTexturesAsync handed to its callback
    delivered,      \* the calls of the caller's completion callback, in order
    thrown,         \* an exception left the parser
    hooks,          \* the caller's hooks invoked so far: every call of a global hook,
                    \* and the first call of the hooks of every other category
    args,           \* the arguments of a call of one function on its own
    returned,       \* what that call returned
    callPc          \* "ready" before that call, then "done"

glbVars == <<filename, data, src, chunks, glbPc>>
meshVars == <<gltfMeshes, hasAccessors, dracoMode, meshGroups, meshPc>>
nodeVars == <<gltfNodes, nodes, nodesPc>>

bufVars == <<bufSt, buffers, bufRemaining>>
viewVars == <<viewSt, viewRemaining>>
texVars == <<nImages, nTextures, texSt, texImage, assets, textures, texRemaining,
             loadsStarted, registryLoads, textureAssets>>
resVars == <<gltfMeshes, hasAccessors, dracoMode, meshGroups>>
outVars == <<delivered, thrown>>
pipeVars == <<pc, bufVars, viewVars, texVars, outVars, hooks>>

callVars == <<args, returned, callPc>>

vars == <<glbVars, meshVars, nodeVars, pipeVars, callVars>>

(***************************************************************************)
(* Bounds of the model.                                                    *)
(***************************************************************************)
MaxChunks == 3
MaxPrims == 2
MaxNodes == 3
MaxEdges == 3
MaxBuffers == 2
MaxViews == 2
MaxImages == 2
MaxTextures == 2
MaxCount == 2       \* elements of an accessor
MaxPad == 1         \* bytes of a buffer after the last accessor's data
MaxKeys == 3        \* keyframes of an animation output
MaxChannels == 2    \* channels of an animation
MaxVertices == 2    \* vertices of a vertex buffer

(***************************************************************************)
(* Program constants of the GLB container format.                          *)
(***************************************************************************)
\* 0x46546C67, "glTF"
GLB_MAGIC == 1179937895
GLB_VERSION == 2
\* 0x4E4F534A, "JSON"
CHUNK_JSON == 1313821514
\* 0x004E4942, "BIN\0"
CHUNK_BIN == 5130562
HEADER_BYTES == 12

(***************************************************************************)
(* Bytes.  DataView.getUint32(offset, true) reads four bytes little-endian *)
(* and throws a RangeError when they are not all inside the data.          *)
(***************************************************************************)
U32LE(n) ==
    << n % 256, (n \div 256) % 256, (n \div 65536) % 256, (n \div 16777216) % 256 >>

CanGetUint32(bytes, offset) == offset + 4 <= Len(bytes)

getUint32(bytes, offset) ==
    bytes[offset + 1] + 256 * bytes[offset + 2] + 65536 * bytes[offset + 3]
        + 16777216 * bytes[offset + 4]

NoChunk == [present |-> FALSE, bytes |-> <<>>]
SomeChunk(b) == [present |-> TRUE, bytes |-> b]

\* the three ways a call can end: callback(err), callback(null, chunks), throw.
\* msg names the message and expected the value the message says was expected
\* (0 when the message names none)
GlbError(m, e) ==
    [kind |-> "err", msg |-> m, expected |-> e, gltfChunk |-> <<>>, binaryChunk |-> NoChunk]
GlbThrow(m) ==
    [kind |-> "throw", msg |-> m, expected |-> 0, gltfChunk |-> <<>>, binaryChunk |-> NoChunk]
GlbOk(g, b) ==
    [kind |-> "ok", msg |-> "none", expected |-> 0, gltfChunk |-> g, binaryChunk |-> b]
NotCalled ==
    [kind |-> "none", msg |-> "none", expected |-> 0, gltfChunk |-> <<>>,
     binaryChunk |-> NoChunk]

(***************************************************************************)
(* parseGlb, the chunk loop: while (offset < length) { ... }.              *)
(* The result is the list of chunks read, or the exception thrown.         *)
(***************************************************************************)
\* a chunk's data taken from where its header starts (what C12 rules out)
ChunkDataAtHeader(bytes, offset, chunkLength) == SubSeq(bytes, offset + 1, offset + chunkLength)
\* new Uint8Array(glbData, offset + 8, chunkLength)
ChunkData(bytes, offset, chunkLength) == SubSeq(bytes, offset + 9, offset + 8 + chunkLength)

RECURSIVE ReadChunks(_, _, _, _)
ReadChunks(bytes, length, offset, acc) ==
    IF offset >= length THEN [thrown |-> FALSE, chunks |-> acc]
    ELSE IF ~CanGetUint32(bytes, offset)
        THEN [thrown |-> TRUE, chunks |-> acc]              \* RangeError
    ELSE LET chunkLength == getUint32(bytes, offset) IN
        IF offset + chunkLength + 8 > Len(bytes)
        THEN [thrown |-> TRUE, chunks |-> acc]              \* "Invalid chunk length"
        ELSE ReadChunks(bytes, length, offset + chunkLength + 8,
                Append(acc, [length |-> chunkLength,
                             type |-> getUint32(bytes, offset + 4),
                             data |-> ChunkData(bytes, offset, chunkLength)]))

\* a chunk count test without the upper limit (what C10 rules out)
AtLeastOneChunk(n) == n >= 1
\* chunks.length !== 1 && chunks.length !== 2 is the error
ChunkCountOk(n) == n = 1 \/ n = 2

\* a magic test that lets every magic through (what C9 rules out)
AnyMagic(magic) == TRUE
\* magic !== 0x46546C67 is the error
MagicOk(magic) == magic = GLB_MAGIC

parseGlb(glbData) ==
    LET magic == getUint32(glbData, 0)
        version == getUint32(glbData, 4)
        length == getUint32(glbData, 8)
    IN  IF ~MagicOk(magic) THEN GlbError("magic", GLB_MAGIC)
        ELSE IF version # GLB_VERSION THEN GlbError("version", GLB_VERSION)
        ELSE IF length <= 0 \/ length > Len(glbData) THEN GlbError("length", 0)
        ELSE LET read == ReadChunks(glbData, length, HEADER_BYTES, <<>>)
                 cs == read.chunks
             IN  IF read.thrown THEN GlbThrow("chunkLength")
                 ELSE IF ~ChunkCountOk(Len(cs)) THEN GlbError("chunkCount", 0)
                 ELSE IF cs[1].type # CHUNK_JSON THEN GlbError("chunkType0", CHUNK_JSON)
                 ELSE IF Len(cs) > 1 /\ cs[2].type # CHUNK_BIN THEN GlbError("chunkType1", CHUNK_BIN)
                 ELSE GlbOk(cs[1].data,
                            IF Len(cs) = 2 THEN SomeChunk(cs[2].data) ELSE NoChunk)

parseChunk(name, bytes) ==
    IF name = "glb" THEN parseGlb(bytes) ELSE GlbOk(bytes, NoChunk)

(***************************************************************************)
(* Containers: the inputs of parseGlb.  A container is written as a        *)
(* 12-byte header followed by its chunks; a chunk is written as its        *)
(* declared length, its type and its data.  The header's length field and  *)
(* the last chunk's declared length may be wrong.                          *)
(***************************************************************************)
ChunkDatas == { <<>>, <<123>>, <<34, 0>> }
ChunkTypes == { CHUNK_JSON, CHUNK_BIN, 0 }
Magics == { GLB_MAGIC, 0 }
Versions == { 1, GLB_VERSION }
LengthModes == { "exact", "zero", "over", "first" }

ChunkSpecs == [type : ChunkTypes, data : ChunkDatas]

EncodeChunk(c, declared) == U32LE(declared) \o U32LE(c.type) \o c.data

RECURSIVE EncodeChunks(_, _)
\* overrun: the last chunk declares one byte more than it holds
EncodeChunks(cs, overrun) ==
    IF cs = <<>> THEN <<>>
    ELSE LET c == Head(cs)
             declared == IF Len(cs) = 1 /\ overrun THEN Len(c.data) + 1 ELSE Len(c.data)
         IN  EncodeChunk(c, declared) \o EncodeChunks(Tail(cs), overrun)

EncodeGlb(magic, version, lengthMode, cs, overrun) ==
    LET body == EncodeChunks(cs, overrun)
        total == HEADER_BYTES + Len(body)
        length == CASE lengthMode = "exact" -> total
                    [] lengthMode = "zero" -> 0
                    [] lengthMode = "over" -> total + 1
                    [] OTHER -> IF cs = <<>> THEN total
                                ELSE HEADER_BYTES + 8 + Len(cs[1].data)
    IN  U32LE(magic) \o U32LE(version) \o U32LE(length) \o body

ChunkLists == UNION { [1..n -> ChunkSpecs] : n \in 0..MaxChunks }

(***************************************************************************)
(* JSON values, as JSON.parse builds them.  An object keeps its keys in    *)
(* the order of the document; a key is the sequence of its char codes.     *)
(***************************************************************************)
Num(x) == [t |-> "num", n |-> x, kv |-> <<>>, el |-> <<>>]
Obj(pairs) == [t |-> "obj", n |-> 0, kv |-> pairs, el |-> <<>>]
Arr(elems) == [t |-> "arr", n |-> 0, kv |-> <<>>, el |-> elems]
Undefined == [t |-> "undef", n |-> 0, kv |-> <<>>, el |-> <<>>]

K_attributes == <<97, 116, 116, 114, 105, 98, 117, 116, 101, 115>>
K_indices == <<105, 110, 100, 105, 99, 101, 115>>
K_material == <<109, 97, 116, 101, 114, 105, 97, 108>>
K_extensions == <<101, 120, 116, 101, 110, 115, 105, 111, 110, 115>>
K_KHR_draco_mesh_compression ==
    <<75, 72, 82, 95, 100, 114, 97, 99, 111, 95, 109, 101, 115, 104, 95,
      99, 111, 109, 112, 114, 101, 115, 115, 105, 111, 110>>
K_bufferView == <<98, 117, 102, 102, 101, 114, 86, 105, 101, 119>>
K_POSITION == <<80, 79, 83, 73, 84, 73, 79, 78>>
K_NORMAL == <<78, 79, 82, 77, 65, 76>>
K_undefined == <<117, 110, 100, 101, 102, 105, 110, 101, 100>>

\* object.hasOwnProperty(key) and object[key]
Has(object, key) == \E i \in 1..Len(object.kv) : object.kv[i][1] = key
Get(object, key) ==
    IF Has(object, key)
    THEN object.kv[CHOOSE i \in 1..Len(object.kv) : object.kv[i][1] = key][2]
    ELSE Undefined

(***************************************************************************)
(* hash.js.  Array.prototype.sort without a comparator orders strings by   *)
(* their UTF-16 code units.                                                *)
(***************************************************************************)
RECURSIVE KeyLess(_, _)
KeyLess(a, b) ==
    IF a = <<>> THEN b # <<>>
    ELSE IF b = <<>> THEN FALSE
    ELSE IF a[1] # b[1] THEN a[1] < b[1]
    ELSE KeyLess(Tail(a), Tail(b))

RECURSIVE InsertSorted(_, _)
InsertSorted(sorted, e) ==
    IF sorted = <<>> THEN <<e>>
    ELSE IF KeyLess(e[1], sorted[1][1]) THEN <<e>> \o sorted
    ELSE <<sorted[1]>> \o InsertSorted(Tail(sorted), e)

\* keys left in the order they were written (what C13 rules out)
KeepOrder(pairs) == pairs
RECURSIVE SortByKey(_)
SortByKey(pairs) ==
    IF pairs = <<>> THEN <<>> ELSE InsertSorted(SortByKey(Tail(pairs)), Head(pairs))

RECURSIVE Digits(_)
Digits(x) == IF x < 10 THEN <<48 + x>> ELSE Digits(x \div 10) \o <<48 + (x % 10)>>

\* Object.keys(value) with the values: none for a number, the indices for an array
OwnPairs(value) ==
    CASE value.t = "obj" -> value.kv
      [] value.t = "arr" -> [i \in 1..Len(value.el) |-> <<Digits(i - 1), value.el[i]>>]
      [] OTHER -> <<>>

RECURSIVE getSortedObject(_)
getSortedObject(object) ==
    LET sorted == SortByKey(OwnPairs(object))
    IN  Obj([i \in 1..Len(sorted) |->
            LET value == sorted[i][2]
            IN  <<sorted[i][1],
                  IF value.t = "arr"
                  THEN Arr([j \in 1..Len(value.el) |-> getSortedObject(value.el[j])])
                  ELSE IF value.t = "obj" THEN getSortedObject(value)
                  ELSE value>>])

\* a hash input that keeps the ignored keys (what C7 rules out)
KeepKeys(object, ignoreKeys) == object
\* ignoreKeys.forEach(function (key) { delete sortedObject[key]; })
DeleteKeys(object, ignoreKeys) ==
    Obj(SelectSeq(object.kv, LAMBDA e : \A k \in 1..Len(ignoreKeys) : ignoreKeys[k] # e[1]))

RECURSIVE Stringify(_)
RECURSIVE StringifyPairs(_)
RECURSIVE StringifyElems(_)
\* JSON.stringify with the replacer that turns undefined into "undefined"
Stringify(value) ==
    CASE value.t = "num" -> Digits(value.n)
      [] value.t = "obj" -> <<123>> \o StringifyPairs(value.kv) \o <<125>>
      [] value.t = "arr" -> <<91>> \o StringifyElems(value.el) \o <<93>>
      [] OTHER -> <<34>> \o K_undefined \o <<34>>
StringifyPairs(pairs) ==
    IF pairs = <<>> THEN <<>>
    ELSE <<34>> \o pairs[1][1] \o <<34, 58>> \o Stringify(pairs[1][2])
         \o (IF Len(pairs) > 1 THEN <<44>> ELSE <<>>) \o StringifyPairs(Tail(pairs))
StringifyElems(elems) ==
    IF elems = <<>> THEN <<>>
    ELSE Stringify(elems[1])
         \o (IF Len(elems) > 1 THEN <<44>> ELSE <<>>) \o StringifyElems(Tail(elems))

\* hash = ((hash << 5) - hash) + c; hash |= 0: 31 * hash + c in 32 bits, kept as
\* two 16-bit halves <<high, low>>
\* one turn of the loop of hashCode, for the char at i (none past the end)
HashStep(h, str, i) ==
    IF i > Len(str) THEN h
    ELSE LET low == 31 * h[2] + str[i]
             high == 31 * h[1] + (low \div 65536)
         IN  <<high % 65536, low % 65536>>

\* h is a 32-bit value in two 16-bit halves
IsHalves(h) == h[1] \in 0..65535 /\ h[2] \in 0..65535

\* eight turns of the loop
HashSteps(h, str, i) ==
    HashStep(HashStep(HashStep(HashStep(HashStep(HashStep(HashStep(HashStep(
        h, str, i), str, i + 1), str, i + 2), str, i + 3), str, i + 4),
        str, i + 5), str, i + 6), str, i + 7)

\* the loop of hashCode from the char at i on, eight turns at a time; their
\* result is computed (and seen to stay within 32 bits) before the next eight
RECURSIVE HashFrom(_, _, _)
HashFrom(h, str, i) ==
    IF i > Len(str) THEN h
    ELSE LET next == HashSteps(h, str, i)
         IN  IF IsHalves(next) THEN HashFrom(next, str, i + 8) ELSE h

\* the signed 32-bit integer the two halves stand for
hashCode(str) ==
    LET h == HashFrom(<<0, 0>>, str, 1)
    IN  IF h[1] >= 32768 THEN (h[1] - 65536) * 65536 + h[2] ELSE h[1] * 65536 + h[2]

\* the string objectHashCode hashes
objectString(object, ignoreKeys) ==
    Stringify(DeleteKeys(getSortedObject(object), ignoreKeys))

objectHashCode(object, ignoreKeys) == hashCode(objectString(object, ignoreKeys))

\* objects by reference: heap[ref] is the object a reference stands for.
\* a sort that works on its argument (what C29 rules out)
SameObject(heap, ref) == ref
\* reduce(..., {}): getSortedObject fills an object of its own
NewObject(heap, ref) == Len(heap) + 1

\* lines 44-50: the caller's object after objectHashCode(object, ignoreKeys);
\* delete works on the object sortedObject refers to
ArgumentAfter(object, ignoreKeys) ==
    LET heap == <<object>>
        sortedObject == NewObject(heap, 1)
        sorted == [r \in 1..2 |-> IF r = sortedObject THEN getSortedObject(heap[1])
                                  ELSE IF r = 1 THEN heap[1] ELSE Undefined]
        deleted == [sorted EXCEPT ![sortedObject] = DeleteKeys(@, ignoreKeys)]
    IN  deleted[1]

(***************************************************************************)
(* Primitives of the document.  A primitive is written from a geometry     *)
(* (its attributes, indices and extensions), an optional material index    *)
(* and a key order; json is what the parser sees, geom and material say    *)
(* what it was written from.                                               *)
(***************************************************************************)
Reverse(seq) == [i \in 1..Len(seq) |-> seq[Len(seq) + 1 - i]]

GeomIds == { "tri", "triNormal", "indexed", "draco" }
MaterialChoices == { "none", "m0", "m1" }
KeyOrders == { "forward", "backward" }

GeomPairs(geom, order) ==
    LET both == << <<K_POSITION, Num(0)>>, <<K_NORMAL, Num(1)>> >>
        position == << <<K_POSITION, Num(0)>> >>
        extDraco == Obj(<< <<K_bufferView, Num(0)>>, <<K_attributes, Obj(position)>> >>)
    IN  CASE geom = "tri" -> << <<K_attributes, Obj(position)>> >>
          [] geom = "triNormal" ->
                << <<K_attributes, Obj(IF order = "forward" THEN both ELSE Reverse(both))>> >>
          [] geom = "indexed" -> << <<K_attributes, Obj(position)>>, <<K_indices, Num(2)>> >>
          [] OTHER -> << <<K_attributes, Obj(position)>>,
                         <<K_extensions,
                           Obj(<< <<K_KHR_draco_mesh_compression, extDraco>> >>)>> >>

MaterialPairs(material) ==
    CASE material = "m0" -> << <<K_material, Num(0)>> >>
      [] material = "m1" -> << <<K_material, Num(1)>> >>
      [] OTHER -> <<>>

WritePrimitive(geom, material, order) ==
    LET pairs == GeomPairs(geom, order) \o MaterialPairs(material)
    IN  [json |-> Obj(IF order = "forward" THEN pairs ELSE Reverse(pairs)),
         geom |-> geom, material |-> material]

PrimitiveDocs ==
    { WritePrimitive(g, m, o) : g \in GeomIds, m \in MaterialChoices, o \in KeyOrders }

\* the primitives ps cut into meshes after the positions in cuts
RECURSIVE SplitAt(_, _, _, _, _)
SplitAt(ps, cuts, i, done, cur) ==
    IF i > Len(ps) THEN (IF cur = <<>> THEN done ELSE Append(done, cur))
    ELSE IF i \in cuts THEN SplitAt(ps, cuts, i + 1, Append(done, Append(cur, ps[i])), <<>>)
    ELSE SplitAt(ps, cuts, i + 1, done, Append(cur, ps[i]))

MeshLists(maxPrims) ==
    UNION { { SplitAt(ps, cuts, 1, <<>>, <<>>) :
                ps \in [1..k -> PrimitiveDocs], cuts \in SUBSET (1..(k - 1)) } :
            k \in 0..maxPrims }

(***************************************************************************)
(* createMeshGroup and createMeshGroups.  A Mesh object is named by the    *)
(* position <<mesh index, primitive index>> of the primitive it was built  *)
(* for.  errors counts the calls of callback(err).                         *)
(***************************************************************************)
\* the hash of every primitive of the model, computed once
PrimitiveHash == [p \in PrimitiveDocs |-> objectHashCode(p.json, <<K_material>>)]

\* lines 661-698: the primitive carries Draco data, a decoder is configured,
\* and the decoder reports a failure
DracoDecodeFails(primitive, mode) ==
    /\ Has(primitive, K_extensions)
    /\ Has(Get(primitive, K_extensions), K_KHR_draco_mesh_compression)
    /\ mode # "absent"
    /\ Has(Get(Get(primitive, K_extensions), K_KHR_draco_mesh_compression), K_attributes)
    /\ mode = "fail"

NoMeshes == [groups |-> <<>>, cache |-> {}, errors |-> 0]

\* one turn of gltfMesh.primitives.forEach; st.groups[mi] is the meshGroup under way
MeshGroupStep(st, p, mi, pi, mode) ==
    LET primitiveHash == PrimitiveHash[p]
        hit == { e \in st.cache : e.hash = primitiveHash }
        push(mesh) == [st.groups EXCEPT ![mi] =
                          Append(@, [mesh |-> mesh,
                                     materialIndex |-> Get(p.json, K_material)])]
    IN  IF hit # {}
        THEN [st EXCEPT !.groups = push((CHOOSE e \in hit : TRUE).mesh)]
        ELSE IF DracoDecodeFails(p.json, mode)
        THEN [st EXCEPT !.errors = @ + 1]
        ELSE LET mesh == [id |-> <<mi, pi>>]
             IN  [st EXCEPT !.groups = push(mesh),
                            !.cache = @ \cup {[hash |-> primitiveHash, mesh |-> mesh]}]

RECURSIVE createMeshGroup(_, _, _, _, _)
createMeshGroup(st, gltfMesh, mi, pi, mode) ==
    IF pi > Len(gltfMesh) THEN st
    ELSE createMeshGroup(MeshGroupStep(st, gltfMesh[pi], mi, pi, mode), gltfMesh, mi, pi + 1, mode)

RECURSIVE MapMeshes(_, _, _, _)
MapMeshes(st, meshes, mi, mode) ==
    IF mi > Len(meshes) THEN st
    ELSE MapMeshes(createMeshGroup([st EXCEPT !.groups = Append(@, <<>>)],
                                   meshes[mi], mi, 1, mode),
                   meshes, mi + 1, mode)

createMeshGroups(meshes, accessorsPresent, mode) ==
    IF Len(meshes) = 0 \/ ~accessorsPresent THEN NoMeshes
    ELSE MapMeshes(NoMeshes, meshes, 1, mode)

(***************************************************************************)
(* createNodes, the hierarchy loop (lines 1663-1677).  Entities are made   *)
(* without a parent; parent.addChild(child) sets child.parent and appends  *)
(* the child to the parent's children.                                     *)
(***************************************************************************)
NoNodes == [parent |-> <<>>, children |-> <<>>]

\* a hierarchy step in which the last claimant wins (what C8 rules out)
AlwaysAttach(st, i, child) ==
    [parent |-> [st.parent EXCEPT ![child] = i],
     children |-> [st.children EXCEPT ![i] = Append(@, child)]]
\* if (!child.parent) { parent.addChild(child); }
HierarchyStep(st, i, child) ==
    IF st.parent[child] = 0
    THEN [parent |-> [st.parent EXCEPT ![child] = i],
          children |-> [st.children EXCEPT ![i] = Append(@, child)]]
    ELSE st

RECURSIVE HierarchyLoop(_, _, _, _)
HierarchyLoop(st, gltf, i, j) ==
    IF i > Len(gltf) THEN st
    ELSE IF j > Len(gltf[i]) THEN HierarchyLoop(st, gltf, i + 1, 1)
    ELSE HierarchyLoop(HierarchyStep(st, i, gltf[i][j]), gltf, i, j + 1)

createNodes(gltf) ==
    IF Len(gltf) = 0 THEN NoNodes
    ELSE HierarchyLoop([parent |-> [i \in 1..Len(gltf) |-> 0],
                        children |-> [i \in 1..Len(gltf) |-> <<>>]], gltf, 1, 1)

\* node lists: n nodes and a list of <<parent, child>> entries in document order
IsDocumentOrder(edges) == \A k \in 1..(Len(edges) - 1) : edges[k][1] <= edges[k + 1][1]

ChildrenOf(edges, i) ==
    LET mine == SelectSeq(edges, LAMBDA e : e[1] = i)
    IN  [k \in 1..Len(mine) |-> mine[k][2]]

NodeLists ==
    UNION { { [i \in 1..n |-> ChildrenOf(edges, i)] :
                edges \in { e \in UNION { [1..k -> (1..n) \X (1..n)] : k \in 0..MaxEdges } :
                            IsDocumentOrder(e) } } :
            n \in 0..MaxNodes }

(***************************************************************************)
(* Texture assets.  An Asset object is named by how it was made: loaded by *)
(* loadImageAsync for texture `by`, supplied by the image hook for texture *)
(* `by`, or the `by`-th clone made by cloneTextureAsset.                   *)
(***************************************************************************)
NoAsset == [kind |-> "none", by |-> 0]
LoadedAsset(t) == [kind |-> "loaded", by |-> t]
HookAsset(t) == [kind |-> "hook", by |-> t]

\* cloneTextureAsset: a new Asset around a new Texture
cloneTextureAsset(source, serial) == [kind |-> "clone", by |-> serial]

\* the sampler a texture of the document names: none, or one of gltf.samplers
NoSampler == [defined |-> FALSE, magFilter |-> 0, minFilter |-> 0, wrapS |-> 0, wrapT |-> 0]
NearestSampler == [defined |-> TRUE, magFilter |-> 9728, minFilter |-> 9728,
                   wrapS |-> 33071, wrapT |-> 33648]

\* gltfTexture.sampler of the n textures of a document: no texture names a
\* sampler, or every other texture names one
TextureSamplers(n) ==
    { [t \in 1..n |-> NoSampler],
      [t \in 1..n |-> IF t % 2 = 1 THEN NearestSampler ELSE NoSampler] }

getFilter(filter) ==
    CASE filter = 9728 -> "FILTER_NEAREST"
      [] filter = 9729 -> "FILTER_LINEAR"
      [] filter = 9984 -> "FILTER_NEAREST_MIPMAP_NEAREST"
      [] filter = 9985 -> "FILTER_LINEAR_MIPMAP_NEAREST"
      [] filter = 9986 -> "FILTER_NEAREST_MIPMAP_LINEAR"
      [] filter = 9987 -> "FILTER_LINEAR_MIPMAP_LINEAR"
      [] OTHER -> "FILTER_LINEAR"

getWrap(wrap) ==
    CASE wrap = 33071 -> "ADDRESS_CLAMP_TO_EDGE"
      [] wrap = 33648 -> "ADDRESS_MIRRORED_REPEAT"
      [] wrap = 10497 -> "ADDRESS_REPEAT"
      [] OTHER -> "ADDRESS_REPEAT"

\* applySampler: the sampler state it leaves in texture.resource
applySampler(gltfSampler) ==
    LET defaultSampler == [defined |-> TRUE, magFilter |-> 9729, minFilter |-> 9987,
                           wrapS |-> 10497, wrapT |-> 10497]
        sampler == IF gltfSampler.defined THEN gltfSampler ELSE defaultSampler
    IN  [minFilter |-> getFilter(sampler.minFilter),
         magFilter |-> getFilter(sampler.magFilter),
         addressU |-> getWrap(sampler.wrapS),
         addressV |-> getWrap(sampler.wrapT)]

\* textures of one image sharing the image's asset (what C6 rules out)
SharedAssetAt(index, asset, serial) == asset
\* line 2015: the asset of the index-th texture of an image (index from 1)
TextureAssetAt(index, asset, serial) ==
    IF index = 1 THEN asset ELSE cloneTextureAsset(asset, serial)

NoTextureAssets == [done |-> FALSE, result |-> <<>>, sampler |-> <<>>, state |-> {}]

\* lines 2012-2023, the two forEach loops: st.result[t] is the asset of texture t,
\* st.state the sampler state of every asset's texture resource (the last
\* applySampler on it), st.clones the clones made so far
RECURSIVE BuildResult(_, _, _, _, _, _)
BuildResult(st, as, lists, samplerOf, imageIndex, index) ==
    IF imageIndex > Len(lists) THEN st
    ELSE IF index > Len(lists[imageIndex])
    THEN BuildResult(st, as, lists, samplerOf, imageIndex + 1, 1)
    ELSE LET textureIndex == lists[imageIndex][index]
             textureAsset == TextureAssetAt(index, as[imageIndex], st.clones + 1)
             applied == [asset |-> textureAsset,
                         state |-> applySampler(samplerOf[textureIndex])]
         IN  BuildResult(
                [result |-> [st.result EXCEPT ![textureIndex] = textureAsset],
                 state |-> { e \in st.state : e.asset # textureAsset } \cup {applied},
                 clones |-> IF index = 1 THEN st.clones ELSE st.clones + 1],
                as, lists, samplerOf, imageIndex, index + 1)

(***************************************************************************)
(* Idle values: what the variables of the other specifications hold.       *)
(***************************************************************************)
CallIdle ==
    /\ args = <<>>
    /\ returned = <<>>
    /\ callPc = "idle"

GlbIdle ==
    /\ filename = "gltf"
    /\ data = <<>>
    /\ src = [magic |-> 0, version |-> 0, lengthMode |-> "exact", chunks |-> <<>>,
              overrun |-> FALSE]
    /\ chunks = NotCalled
    /\ glbPc = "idle"

MeshIdle ==
    /\ gltfMeshes = <<>>
    /\ hasAccessors = FALSE
    /\ dracoMode = "absent"
    /\ meshGroups = NoMeshes
    /\ meshPc = "idle"

NodesIdle ==
    /\ gltfNodes = <<>>
    /\ nodes = NoNodes
    /\ nodesPc = "idle"

PipeIdle ==
    /\ pc = "idle"
    /\ bufSt = <<>> /\ buffers = <<>> /\ bufRemaining = 0
    /\ viewSt = <<>> /\ viewRemaining = 0
    /\ nImages = 0 /\ nTextures = 0
    /\ texSt = <<>> /\ texImage = <<>> /\ assets = <<>> /\ textures = <<>>
    /\ texRemaining = 0 /\ loadsStarted = <<>> /\ registryLoads = <<>>
    /\ textureAssets = NoTextureAssets
    /\ delivered = <<>>
    /\ thrown = FALSE
    /\ hooks = <<>>

(***************************************************************************)
(* SpecGlb: parseGlb applied to every container of the bounds.             *)
(***************************************************************************)
InitGlb ==
    /\ filename = "glb"
    /\ \E magic \in Magics, version \in Versions, lengthMode \in LengthModes,
          cs \in ChunkLists, overrun \in BOOLEAN :
          /\ (overrun => cs # <<>>)
          /\ src = [magic |-> magic, version |-> version, lengthMode |-> lengthMode,
                    chunks |-> cs, overrun |-> overrun]
          /\ data = EncodeGlb(magic, version, lengthMode, cs, overrun)
    /\ chunks = NotCalled
    /\ glbPc = "ready"
    /\ MeshIdle
    /\ NodesIdle
    /\ PipeIdle
    /\ CallIdle

ParseGlbCall ==
    /\ glbPc = "ready"
    /\ chunks' = parseGlb(data)
    /\ glbPc' = "done"
    /\ UNCHANGED <<filename, data, src>>
    /\ UNCHANGED <<meshVars, nodeVars, pipeVars, callVars>>

NextGlb == ParseGlbCall

SpecGlb == InitGlb /\ [][NextGlb]_vars

(***************************************************************************)
(* SpecMesh: createMeshGroups applied to every mesh list of the bounds.    *)
(***************************************************************************)
InitMesh ==
    /\ gltfMeshes \in MeshLists(MaxPrims)
    /\ hasAccessors \in BOOLEAN
    /\ dracoMode \in { "ok", "fail", "absent" }
    /\ meshGroups = NoMeshes
    /\ meshPc = "ready"
    /\ GlbIdle
    /\ NodesIdle
    /\ PipeIdle
    /\ CallIdle

CreateMeshGroupsCall ==
    /\ meshPc = "ready"
    /\ meshGroups' = createMeshGroups(gltfMeshes, hasAccessors, dracoMode)
    /\ meshPc' = "done"
    /\ UNCHANGED <<gltfMeshes, hasAccessors, dracoMode>>
    /\ UNCHANGED <<glbVars, nodeVars, pipeVars, callVars>>

NextMesh == CreateMeshGroupsCall

SpecMesh == InitMesh /\ [][NextMesh]_vars

(***************************************************************************)
(* SpecNodes: createNodes applied to every node list of the bounds.        *)
(***************************************************************************)
InitNodes ==
    /\ gltfNodes \in NodeLists
    /\ nodes = NoNodes
    /\ nodesPc = "ready"
    /\ GlbIdle
    /\ MeshIdle
    /\ PipeIdle
    /\ CallIdle

CreateNodesCall ==
    /\ nodesPc = "ready"
    /\ nodes' = createNodes(gltfNodes)
    /\ nodesPc' = "done"
    /\ UNCHANGED gltfNodes
    /\ UNCHANGED <<glbVars, meshVars, pipeVars, callVars>>

NextNodes == CreateNodesCall

SpecNodes == InitNodes /\ [][NextNodes]_vars
(***************************************************************************)
(* GlbParser.parseAsync.  The document is immutable during a parse, so each *)
(* part of it (the buffers, buffer views, images, textures and meshes, and  *)
(* what a caller hook or a fetch answers) is drawn at the step that first   *)
(* reads it.  A caller hook (processAsync), http.get and the asset load     *)
(* call back once, in any order.                                            *)
(***************************************************************************)
\* a call callback(err), with the function whose callback parameter it went through
Err(from) == [kind |-> "err", from |-> from]
Result == [kind |-> "result", from |-> "createResources"]

\* the containers and documents handed to parseAsync
PipelineInputs ==
    { [filename |-> "gltf", magic |-> 0, version |-> 0, lengthMode |-> "exact",
       chunks |-> <<>>, overrun |-> FALSE],
      [filename |-> "glb", magic |-> GLB_MAGIC, version |-> GLB_VERSION,
       lengthMode |-> "exact",
       chunks |-> << [type |-> CHUNK_JSON, data |-> <<123>>],
                     [type |-> CHUNK_BIN, data |-> <<34, 0>>] >>, overrun |-> FALSE],
      [filename |-> "glb", magic |-> GLB_MAGIC, version |-> GLB_VERSION,
       lengthMode |-> "exact",
       chunks |-> << [type |-> CHUNK_JSON, data |-> <<123>>] >>, overrun |-> FALSE],
      [filename |-> "glb", magic |-> 0, version |-> GLB_VERSION, lengthMode |-> "exact",
       chunks |-> << [type |-> CHUNK_JSON, data |-> <<123>>] >>, overrun |-> FALSE],
      [filename |-> "glb", magic |-> GLB_MAGIC, version |-> GLB_VERSION,
       lengthMode |-> "exact",
       chunks |-> << [type |-> CHUNK_JSON, data |-> <<123>>] >>, overrun |-> TRUE] }

\* gltf.meshes with what the Draco decoder does, as createResources meets them
PipelineMeshInputs ==
    { [meshes |-> <<>>, mode |-> "absent"],
      [meshes |-> << <<WritePrimitive("draco", "m0", "forward"),
                       WritePrimitive("tri", "m1", "forward")>> >>, mode |-> "ok"],
      [meshes |-> << <<WritePrimitive("draco", "m0", "forward"),
                       WritePrimitive("tri", "m1", "forward")>> >>, mode |-> "fail"] }

Init ==
    /\ \E input \in PipelineInputs :
        /\ filename = input.filename
        /\ src = [magic |-> input.magic, version |-> input.version,
                  lengthMode |-> input.lengthMode, chunks |-> input.chunks,
                  overrun |-> input.overrun]
        /\ data = IF input.filename = "glb"
                  THEN EncodeGlb(input.magic, input.version, input.lengthMode,
                                 input.chunks, input.overrun)
                  ELSE <<123>>
    /\ chunks = NotCalled
    /\ glbPc = "idle"
    /\ MeshIdle
    /\ NodesIdle
    /\ CallIdle
    /\ pc = "ready"
    /\ bufSt = <<>> /\ buffers = <<>> /\ bufRemaining = 0
    /\ viewSt = <<>> /\ viewRemaining = 0
    /\ nImages = 0 /\ nTextures = 0
    /\ texSt = <<>> /\ texImage = <<>> /\ assets = <<>> /\ textures = <<>>
    /\ texRemaining = 0 /\ loadsStarted = <<>> /\ registryLoads = <<>>
    /\ textureAssets = NoTextureAssets
    /\ delivered = <<>>
    /\ thrown = FALSE
    /\ hooks = <<>>

\* what no step of parseAsync changes
PipeFrame == UNCHANGED <<filename, data, src, glbPc, meshPc, nodeVars, callVars>>

\* the hooks a step invokes, in the order of the code: the loop of a loader calls
\* the category's preprocess and processAsync (lines 2091-2095, 2265-2269,
\* 2030-2034), loadImageAsync the image hooks (lines 1956-1960), createResources
\* global.preprocess first (lines 1824-1826) and global.postprocess last (lines
\* 1862-1864)
ImageLoadStarted(started) == \E i \in 1..Len(started) : started[i] > 0
LogHooks ==
    hooks' = hooks
        \o (IF Len(bufSt) = 0 /\ Len(bufSt') > 0 THEN <<"buffer">> ELSE <<>>)
        \o (IF Len(viewSt) = 0 /\ Len(viewSt') > 0 THEN <<"bufferView">> ELSE <<>>)
        \o (IF Len(texSt) = 0 /\ Len(texSt') > 0 THEN <<"texture">> ELSE <<>>)
        \o (IF ~ImageLoadStarted(loadsStarted) /\ ImageLoadStarted(loadsStarted')
            THEN <<"image">> ELSE <<>>)
        \o (IF pc # "resources" /\ pc' = "resources"
            THEN <<"global.preprocess", "global.postprocess">> ELSE <<>>)

\* a join that fires on every completion (what C4 rules out)
EagerJoin(remaining) == TRUE
\* if (--remaining === 0), in the onLoad of the three loaders
BuffersJoined(remaining) == remaining = 0
ViewsJoined(remaining) == remaining = 0
TexturesJoined(remaining) == remaining = 0

\* createResources: every create* function, then callback(null, result);
\* createMeshGroup calls the same callback with every Draco decode error
createResources(del) ==
    \E input \in PipelineMeshInputs :
        LET built == createMeshGroups(input.meshes, TRUE, input.mode)
        IN  /\ gltfMeshes' = input.meshes
            /\ hasAccessors' = TRUE
            /\ dracoMode' = input.mode
            /\ meshGroups' = built
            /\ delivered' = del \o [k \in 1..built.errors |-> Err("createMeshGroup")]
                                \o <<Result>>
            /\ pc' = "resources"

loadTexturesAsync ==
    \E ni \in 0..MaxImages, nt \in 0..MaxTextures :
        /\ nImages' = ni
        /\ nTextures' = nt
        /\ IF ni = 0 \/ nt = 0
           THEN /\ texSt' = <<>> /\ texImage' = <<>> /\ texRemaining' = 0
                /\ assets' = <<>> /\ textures' = <<>>
                /\ loadsStarted' = <<>> /\ registryLoads' = <<>>
                /\ textureAssets' = [done |-> TRUE, result |-> <<>>, sampler |-> <<>>,
                                     state |-> {}]
                /\ createResources(delivered)
           ELSE /\ texSt' = [t \in 1..nt |-> "hook"]
                /\ texImage' = [t \in 1..nt |-> 0]
                /\ texRemaining' = nt
                /\ assets' = [i \in 1..ni |-> NoAsset]
                /\ textures' = [i \in 1..ni |-> <<>>]
                /\ loadsStarted' = [i \in 1..ni |-> 0]
                /\ registryLoads' = [i \in 1..ni |-> 0]
                /\ textureAssets' = NoTextureAssets
                /\ pc' = "textures"
                /\ UNCHANGED <<resVars, delivered>>

\* gltf.bufferViews.length throws when the document has no bufferViews
parseBufferViewsAsync ==
    \E present \in BOOLEAN, n \in 0..MaxViews :
        /\ (~present => n = 0)
        /\ viewSt' = [i \in 1..n |-> "hook"]
        /\ viewRemaining' = n
        /\ pc' = "views"
        /\ thrown' = (thrown \/ ~present)
        /\ UNCHANGED <<texVars, resVars, delivered>>

\* gltf.buffers.length throws when the document has no buffers
loadBuffersAsync ==
    \E present \in BOOLEAN, n \in 0..MaxBuffers :
        /\ (~present => n = 0)
        /\ bufSt' = [i \in 1..n |-> "hook"]
        /\ buffers' = [i \in 1..n |-> "unset"]
        /\ bufRemaining' = n
        /\ IF ~present
           THEN /\ pc' = "buffers"
                /\ thrown' = TRUE
                /\ UNCHANGED <<viewVars, texVars, resVars, delivered>>
           ELSE IF n = 0 THEN parseBufferViewsAsync
           ELSE /\ pc' = "buffers"
                /\ UNCHANGED <<viewVars, texVars, resVars, delivered, thrown>>

\* parseChunk, parseGltf and the start of loadBuffersAsync
ParseAsync ==
    /\ pc = "ready"
    /\ LET c == parseChunk(filename, data)
       IN  /\ chunks' = c
           /\ IF c.kind = "throw"
              THEN /\ pc' = "stopped"
                   /\ thrown' = TRUE
                   /\ UNCHANGED <<bufVars, viewVars, texVars, resVars, delivered>>
              ELSE IF c.kind = "err"
              THEN /\ pc' = "stopped"
                   /\ delivered' = <<Err("parseChunk")>>
                   /\ UNCHANGED <<bufVars, viewVars, texVars, resVars, thrown>>
              ELSE \E gltf \in { "document", "oldVersion", "syntaxError" } :
                    IF gltf = "syntaxError"
                    THEN /\ pc' = "stopped"
                         /\ thrown' = TRUE
                         /\ UNCHANGED <<bufVars, viewVars, texVars, resVars, delivered>>
                    ELSE IF gltf = "oldVersion"
                    THEN /\ pc' = "stopped"
                         /\ delivered' = <<Err("parseGltf")>>
                         /\ UNCHANGED <<bufVars, viewVars, texVars, resVars, thrown>>
                    ELSE loadBuffersAsync
    /\ PipeFrame
    /\ LogHooks

\* loadBuffersAsync, onLoad(index, buffer)
BufferOnLoad(i, buffer) ==
    /\ buffers' = [buffers EXCEPT ![i] = buffer]
    /\ bufSt' = [bufSt EXCEPT ![i] = "done"]
    /\ bufRemaining' = bufRemaining - 1
    /\ IF BuffersJoined(bufRemaining - 1) THEN parseBufferViewsAsync
       ELSE UNCHANGED <<pc, viewVars, texVars, resVars, delivered, thrown>>

BufferFail(i, from) ==
    /\ bufSt' = [bufSt EXCEPT ![i] = "failed"]
    /\ delivered' = Append(delivered, Err(from))
    /\ UNCHANGED <<buffers, bufRemaining, pc, viewVars, texVars, resVars, thrown>>

\* the callback handed to options.buffer.processAsync (lines 2095-2134)
BufferHookCb(i) ==
    /\ bufSt[i] = "hook"
    /\ \E answer \in { "err", "arrayBuffer", "dataUri", "uri", "noUri" } :
        CASE answer = "err" -> BufferFail(i, "loadBuffersAsync")
          [] answer = "arrayBuffer" -> BufferOnLoad(i, "bytes")
          [] answer = "dataUri" -> BufferOnLoad(i, "bytes")
          [] answer = "uri" ->
                /\ bufSt' = [bufSt EXCEPT ![i] = "http"]
                /\ UNCHANGED <<buffers, bufRemaining, pc, viewVars, texVars, resVars,
                               delivered, thrown>>
          [] OTHER -> BufferOnLoad(i, IF chunks.binaryChunk.present THEN "bytes"
                                      ELSE "absent")
    /\ UNCHANGED chunks
    /\ PipeFrame
    /\ LogHooks

\* the callback handed to http.get (lines 2120-2126)
BufferHttpCb(i) ==
    /\ bufSt[i] = "http"
    /\ \E err \in BOOLEAN :
        IF err THEN BufferFail(i, "loadBuffersAsync") ELSE BufferOnLoad(i, "bytes")
    /\ UNCHANGED chunks
    /\ PipeFrame
    /\ LogHooks

\* parseBufferViewsAsync, onLoad(index, bufferView)
ViewOnLoad(i) ==
    /\ viewSt' = [viewSt EXCEPT ![i] = "done"]
    /\ viewRemaining' = viewRemaining - 1
    /\ IF ViewsJoined(viewRemaining - 1) THEN loadTexturesAsync
       ELSE UNCHANGED <<pc, texVars, resVars, delivered>>
    /\ UNCHANGED thrown

ViewStop(i, how) ==
    /\ viewSt' = [viewSt EXCEPT ![i] = how]
    /\ delivered' = IF how = "failed" THEN Append(delivered, Err("parseBufferViewsAsync"))
                    ELSE delivered
    /\ thrown' = (thrown \/ how = "threw")
    /\ UNCHANGED <<viewRemaining, pc, texVars, resVars>>

\* the callback handed to options.bufferView.processAsync (lines 2269-2281);
\* buffers[gltfBufferView.buffer].buffer throws when that buffer is null or missing
ViewHookCb(i) ==
    /\ viewSt[i] = "hook"
    /\ \E answer \in { "err", "result", "none" } :
        CASE answer = "err" -> ViewStop(i, "failed")
          [] answer = "result" -> ViewOnLoad(i)
          [] OTHER ->
                IF Len(buffers) = 0 THEN ViewStop(i, "threw")
                ELSE \E b \in 1..Len(buffers) :
                        IF buffers[b] = "absent" THEN ViewStop(i, "threw")
                        ELSE ViewOnLoad(i)
    /\ UNCHANGED <<chunks, bufVars>>
    /\ PipeFrame
    /\ LogHooks

\* loadTexturesAsync, onLoad(textureIndex, imageIndex), with assets as they are then
TextureOnLoad(t, imageIndex, as) ==
    LET lists == [textures EXCEPT ![imageIndex] = Append(@, t)]
    IN  /\ assets' = as
        /\ textures' = lists
        /\ texSt' = [texSt EXCEPT ![t] = "done"]
        /\ texRemaining' = texRemaining - 1
        /\ IF TexturesJoined(texRemaining - 1)
           THEN \E samplerOf \in TextureSamplers(nTextures) :
                    LET built == BuildResult([result |-> [k \in 1..nTextures |-> NoAsset],
                                              state |-> {}, clones |-> 0],
                                             as, lists, samplerOf, 1, 1)
                    IN  /\ textureAssets' = [done |-> TRUE, result |-> built.result,
                                             sampler |-> samplerOf, state |-> built.state]
                        /\ createResources(delivered)
           ELSE UNCHANGED <<textureAssets, resVars, delivered, pc>>

TextureFail(t, from) ==
    /\ texSt' = [texSt EXCEPT ![t] = "failed"]
    /\ delivered' = Append(delivered, Err(from))
    /\ UNCHANGED <<assets, textures, texRemaining, textureAssets, resVars, pc>>

\* the callback handed to options.texture.processAsync (lines 2034-2058)
TextureHookCb(t) ==
    /\ texSt[t] = "hook"
    /\ \E err \in BOOLEAN :
        IF err
        THEN /\ TextureFail(t, "loadTexturesAsync")
             /\ UNCHANGED <<texImage, loadsStarted>>
        ELSE \E gltfImageIndex \in 1..nImages :
                /\ texImage' = [texImage EXCEPT ![t] = gltfImageIndex]
                /\ IF assets[gltfImageIndex] # NoAsset
                   THEN /\ TextureOnLoad(t, gltfImageIndex, assets)
                        /\ UNCHANGED loadsStarted
                   ELSE /\ texSt' = [texSt EXCEPT ![t] = "imageHook"]
                        /\ loadsStarted' = [loadsStarted EXCEPT ![gltfImageIndex] = @ + 1]
                        /\ UNCHANGED <<assets, textures, texRemaining, textureAssets,
                                       resVars, delivered, pc>>
    /\ UNCHANGED <<nImages, nTextures, registryLoads, thrown>>
    /\ UNCHANGED <<chunks, bufVars, viewVars>>
    /\ PipeFrame
    /\ LogHooks

\* loadImageAsync: the callback handed to options.image.processAsync (lines 1960-1984)
ImageHookCb(t) ==
    /\ texSt[t] = "imageHook"
    /\ \E answer \in { "err", "textureAsset", "load" } :
        CASE answer = "err" ->
                /\ TextureFail(t, "loadTexturesAsync")
                /\ UNCHANGED registryLoads
          [] answer = "textureAsset" ->
                /\ TextureOnLoad(t, texImage[t],
                                 [assets EXCEPT ![texImage[t]] = HookAsset(t)])
                /\ UNCHANGED registryLoads
          [] OTHER ->
                /\ texSt' = [texSt EXCEPT ![t] = "load"]
                /\ registryLoads' = [registryLoads EXCEPT ![texImage[t]] = @ + 1]
                /\ UNCHANGED <<assets, textures, texRemaining, textureAssets, resVars,
                               delivered, pc>>
    /\ UNCHANGED <<nImages, nTextures, texImage, loadsStarted, thrown>>
    /\ UNCHANGED <<chunks, bufVars, viewVars>>
    /\ PipeFrame
    /\ LogHooks

\* loadImageAsync: the asset's 'load' or 'error' event (lines 1942-1951)
ImageLoadCb(t) ==
    /\ texSt[t] = "load"
    /\ \E err \in BOOLEAN :
        IF err THEN TextureFail(t, "loadTexturesAsync")
        ELSE TextureOnLoad(t, texImage[t], [assets EXCEPT ![texImage[t]] = LoadedAsset(t)])
    /\ UNCHANGED <<nImages, nTextures, texImage, loadsStarted, registryLoads, thrown>>
    /\ UNCHANGED <<chunks, bufVars, viewVars>>
    /\ PipeFrame
    /\ LogHooks

Next ==
    \/ ParseAsync
    \/ \E i \in 1..Len(bufSt) : BufferHookCb(i)
    \/ \E i \in 1..Len(bufSt) : BufferHttpCb(i)
    \/ \E i \in 1..Len(viewSt) : ViewHookCb(i)
    \/ \E t \in 1..Len(texSt) : TextureHookCb(t)
    \/ \E t \in 1..Len(texSt) : ImageHookCb(t)
    \/ \E t \in 1..Len(texSt) : ImageLoadCb(t)

Spec == Init /\ [][Next]_vars
(***************************************************************************)
(* Properties of parseAsync, checked under Spec.                           *)
(***************************************************************************)
Errors == { k \in 1..Len(delivered) : delivered[k].kind = "err" }
Results == { k \in 1..Len(delivered) : delivered[k].kind = "result" }

\* a fetch, an asset load or a caller hook of this parse has yet to call back
Pending ==
    \/ \E i \in 1..Len(bufSt) : bufSt[i] \in { "hook", "http" }
    \/ \E i \in 1..Len(viewSt) : viewSt[i] = "hook"
    \/ \E t \in 1..Len(texSt) : texSt[t] \in { "hook", "imageHook", "load" }

AllBuffersResolved ==
    /\ bufRemaining = 0
    /\ \A i \in 1..Len(bufSt) : bufSt[i] = "done" /\ buffers[i] # "unset"

AllViewsCompleted ==
    /\ viewRemaining = 0
    /\ \A i \in 1..Len(viewSt) : viewSt[i] = "done"

AllTexturesCompleted ==
    /\ textureAssets.done
    /\ texRemaining = 0
    /\ \A t \in 1..Len(texSt) : texSt[t] = "done"

\* C1: the completion callback of a parseAsync call is invoked at most once,
\* whatever the number and order of the failures of its fetches, hooks and loads.
C1_CallbackAtMostOnce == Len(delivered) <= 1

\* C2: once an error has been reported to the completion callback, no result
\* bundle is delivered for that parse (a Draco decode failure included).
C2_NoResultAfterError ==
    \A e \in Errors : \A r \in Results : r < e

\* C3: a parseAsync call whose fetches, loads and hooks have all called back, and
\* which did not throw, has invoked the completion callback; empty buffers,
\* bufferViews, images and textures arrays included.
C3_CallbackWhenQuiescent ==
    (pc # "ready" /\ ~Pending /\ ~thrown) => Len(delivered) >= 1

\* C4: no buffer view is computed and no accessor is read before every document
\* buffer is resolved, and createResources does not start before all buffer views
\* and all textures have completed, under every completion order.
C4_StagesInOrder ==
    /\ (pc \in { "views", "textures", "resources" }) => AllBuffersResolved
    /\ (viewSt # <<>> \/ texSt # <<>> \/ textureAssets.done) => AllBuffersResolved
    /\ (pc \in { "textures", "resources" }) => AllViewsCompleted
    /\ (pc = "resources" \/ Results # {}) =>
            AllBuffersResolved /\ AllViewsCompleted /\ AllTexturesCompleted

C4_Witness ==
    /\ pc = "resources"
    /\ Len(bufSt) = 2 /\ Len(viewSt) = 2 /\ Len(texSt) = 2
    /\ AllBuffersResolved /\ AllViewsCompleted /\ AllTexturesCompleted
    /\ Results # {}

\* C5: during one parse at most one load (registry.load) is started for each
\* document image, also when several textures reference it and loads are async.
C5_ImageLoadedOnce ==
    \A i \in 1..Len(registryLoads) : registryLoads[i] <= 1

\* the asset of every texture, and what the textures of one image receive
TextureResultShape ==
    LET r == textureAssets.result
    IN  /\ Len(r) = nTextures
        /\ \A t \in 1..nTextures : r[t] # NoAsset
        /\ \A t, u \in 1..nTextures :
                (t # u /\ texImage[t] = texImage[u]) => r[t] # r[u]
        /\ \A i \in 1..Len(textures) : \A k \in 1..Len(textures[i]) :
                IF k = 1 THEN r[textures[i][k]] = assets[i] /\ assets[i].kind # "clone"
                ELSE r[textures[i][k]].kind = "clone"
        /\ \A t \in 1..nTextures :
                /\ [asset |-> r[t], state |-> applySampler(textureAssets.sampler[t])]
                        \in textureAssets.state
                /\ \A e \in textureAssets.state :
                        e.asset = r[t] => e.state = applySampler(textureAssets.sampler[t])

\* C6, as the claim states it: whenever loadTexturesAsync succeeds its result
\* holds one asset per document texture, distinct for textures of one image.
C6_OnePerTexture ==
    textureAssets.done => (Len(textureAssets.result) = nTextures /\ TextureResultShape)

\* C6: when loadTexturesAsync succeeds for a document with at least one image and
\* one texture, its result holds exactly one asset per texture; textures of one
\* image receive distinct assets (the first the image's asset, the others clones),
\* and every asset carries the sampler state of its own texture, under every
\* completion order.  Without images or without textures the result is empty.
C6_TextureAssets ==
    textureAssets.done =>
        IF nImages = 0 \/ nTextures = 0 THEN textureAssets.result = <<>>
        ELSE TextureResultShape

C6_Witness ==
    /\ textureAssets.done
    /\ nImages >= 1
    /\ nTextures = 2
    /\ texImage[1] = texImage[2]
    /\ textureAssets.sampler[1] # textureAssets.sampler[2]
    /\ textures[texImage[1]] = <<2, 1>>
    /\ textureAssets.result[1].kind = "clone"

(***************************************************************************)
(* Properties of createMeshGroups, checked under SpecMesh.                 *)
(***************************************************************************)
\* where the entry of primitive pi of mesh mi is in its mesh group: a primitive
\* whose Draco data fails to decode pushes no entry
EntryIndex(mi, pi) ==
    Cardinality({ k \in 1..pi : ~DracoDecodeFails(gltfMeshes[mi][k].json, dracoMode) })

\* C7: two primitives identical apart from the material field, with different
\* materials, share one Mesh object, and each has its own entry with its own
\* materialIndex (for primitives whose geometry is built).
C7_SharedMesh ==
    (meshPc = "done" /\ hasAccessors) =>
        \A mi, mj \in 1..Len(gltfMeshes) :
            \A pi \in 1..Len(gltfMeshes[mi]), pj \in 1..Len(gltfMeshes[mj]) :
                LET p == gltfMeshes[mi][pi]
                    q == gltfMeshes[mj][pj]
                IN  (p.geom = q.geom /\ p.material # q.material
                        /\ ~DracoDecodeFails(p.json, dracoMode)) =>
                    LET ep == meshGroups.groups[mi][EntryIndex(mi, pi)]
                        eq == meshGroups.groups[mj][EntryIndex(mj, pj)]
                    IN  /\ ep.mesh = eq.mesh
                        /\ ep.materialIndex = Get(p.json, K_material)
                        /\ eq.materialIndex = Get(q.json, K_material)
                        /\ ep.materialIndex # eq.materialIndex

C7_Witness ==
    /\ meshPc = "done"
    /\ hasAccessors
    /\ Len(gltfMeshes) = 1
    /\ Len(gltfMeshes[1]) = 2
    /\ gltfMeshes[1][1].geom = "triNormal" /\ gltfMeshes[1][2].geom = "triNormal"
    /\ gltfMeshes[1][1].json # gltfMeshes[1][2].json
    /\ gltfMeshes[1][1].material = "m0" /\ gltfMeshes[1][2].material = "m1"
    /\ Len(meshGroups.groups[1]) = 2
    /\ meshGroups.groups[1][1].mesh = meshGroups.groups[1][2].mesh
    /\ Cardinality(meshGroups.cache) = 1

(***************************************************************************)
(* Properties of createNodes, checked under SpecNodes.                     *)
(***************************************************************************)
Claimants(c) ==
    { i \in 1..Len(gltfNodes) : \E j \in 1..Len(gltfNodes[i]) : gltfNodes[i][j] = c }

Places(c) ==
    { <<i, k>> \in (1..Len(gltfNodes)) \X (1..MaxEdges) :
        k <= Len(nodes.children[i]) /\ nodes.children[i][k] = c }

\* C8: after createNodes every node has at most one parent; a child listed by
\* several nodes has the lowest-indexed of them as its parent, and the later
\* claims change nothing.
C8_FirstClaimWins ==
    (nodesPc = "done" /\ gltfNodes # <<>>) =>
        \A c \in 1..Len(gltfNodes) :
            /\ Cardinality(Places(c)) <= 1
            /\ IF Claimants(c) = {} THEN nodes.parent[c] = 0 /\ Places(c) = {}
               ELSE /\ nodes.parent[c] \in Claimants(c)
                    /\ \A i \in Claimants(c) : nodes.parent[c] <= i
                    /\ \E k \in 1..MaxEdges : <<nodes.parent[c], k>> \in Places(c)

C8_Witness ==
    /\ nodesPc = "done"
    /\ Len(gltfNodes) = 3
    /\ Claimants(3) = { 1, 2 }
    /\ nodes.parent[3] = 1
    /\ nodes.children[2] = <<>>

(***************************************************************************)
(* Properties of parseGlb, checked under SpecGlb.  src is what the         *)
(* container was written from.                                             *)
(***************************************************************************)
\* C9: a container with a wrong magic is rejected with the error that names the
\* expected 0x46546C67, one with a wrong version with the error that names the
\* expected 2; magic is checked before version, version before length, and no
\* chunk is read and no result produced.
C9_HeaderRejected ==
    glbPc = "done" =>
        /\ src.magic # GLB_MAGIC => chunks = GlbError("magic", 1179937895)
        /\ (src.magic = GLB_MAGIC /\ src.version # GLB_VERSION) =>
                chunks = GlbError("version", 2)
        /\ chunks.msg = "length" => (src.magic = GLB_MAGIC /\ src.version = GLB_VERSION)
        /\ (src.magic # GLB_MAGIC \/ src.version # GLB_VERSION) =>
                /\ chunks.kind = "err"
                /\ chunks.gltfChunk = <<>>
                /\ chunks.binaryChunk = NoChunk

C9_Witness ==
    /\ glbPc = "done"
    /\ src.magic # GLB_MAGIC
    /\ src.version # GLB_VERSION
    /\ src.lengthMode = "zero"
    /\ src.overrun
    /\ chunks.msg = "magic"

\* the header is valid and every chunk is whole
WellFormed ==
    /\ src.magic = GLB_MAGIC
    /\ src.version = GLB_VERSION
    /\ src.lengthMode = "exact"
    /\ ~src.overrun

ChunkTypesOk(cs) ==
    /\ Len(cs) \in { 1, 2 }
    /\ cs[1].type = CHUNK_JSON
    /\ Len(cs) = 2 => cs[2].type = CHUNK_BIN

\* C10: a container with a valid header is accepted only with exactly 1 or 2
\* chunks, the first of type JSON and the second, if any, of type BIN; 0 chunks,
\* 3 or more chunks or a wrong type fail, and 1 chunk succeeds with no binaryChunk.
C10_ChunkCountAndTypes ==
    (glbPc = "done" /\ WellFormed) =>
        /\ chunks.kind = "ok" <=> ChunkTypesOk(src.chunks)
        /\ chunks.kind # "ok" => chunks.kind = "err"
        /\ Len(src.chunks) \notin { 1, 2 } => chunks.msg = "chunkCount"
        /\ chunks.kind = "ok" =>
                /\ chunks.gltfChunk = src.chunks[1].data
                /\ chunks.binaryChunk = IF Len(src.chunks) = 1 THEN NoChunk
                                        ELSE SomeChunk(src.chunks[2].data)

C10_Witness ==
    /\ glbPc = "done"
    /\ WellFormed
    /\ Len(src.chunks) = 1
    /\ chunks.kind = "ok"
    /\ chunks.binaryChunk = NoChunk

\* C12: a metadata byte sequence and an optional binary byte sequence, written as
\* a GLB container (12-byte header, JSON chunk, optional BIN chunk) and read by
\* parseGlb, come back byte-identical; binaryChunk is null when none was written.
C12_RoundTrip ==
    (glbPc = "done" /\ WellFormed /\ ChunkTypesOk(src.chunks)) =>
        /\ chunks.kind = "ok"
        /\ chunks.gltfChunk = src.chunks[1].data
        /\ Len(src.chunks) = 1 => chunks.binaryChunk = NoChunk
        /\ Len(src.chunks) = 2 =>
                /\ chunks.binaryChunk.present
                /\ chunks.binaryChunk.bytes = src.chunks[2].data

C12_Witness ==
    /\ glbPc = "done"
    /\ WellFormed
    /\ Len(src.chunks) = 2
    /\ src.chunks[1] = [type |-> CHUNK_JSON, data |-> <<123>>]
    /\ src.chunks[2] = [type |-> CHUNK_BIN, data |-> <<34, 0>>]
    /\ chunks = GlbOk(<<123>>, SomeChunk(<<34, 0>>))

(***************************************************************************)
(* Further properties of parseAsync, checked under Spec.                   *)
(***************************************************************************)
\* C11: a container-format violation found by the chunk reader, a chunk whose
\* declared length overruns the data included, reaches the caller as the error
\* passed to the completion callback, never as an exception out of parseAsync.
C11_FormatErrorThroughCallback ==
    (pc = "stopped" /\ filename = "glb" /\ chunks.kind # "ok") =>
        /\ ~thrown
        /\ chunks.kind = "err"
        /\ delivered = <<Err("parseChunk")>>

(***************************************************************************)
(* SpecHash: objectHashCode applied to two values.  Every value is one of  *)
(* the shapes below with the keys of its objects, at every depth, written  *)
(* in some order.                                                          *)
(***************************************************************************)
ProgramIdle == GlbIdle /\ MeshIdle /\ NodesIdle /\ PipeIdle
programVars == <<glbVars, meshVars, nodeVars, pipeVars>>

K_targets == <<116, 97, 114, 103, 101, 116, 115>>
K_weights == <<119, 101, 105, 103, 104, 116, 115>>

HashShapes ==
    LET both(a, b) == Obj(<< <<K_NORMAL, Num(a)>>, <<K_POSITION, Num(b)>> >>)
        one(a) == Obj(<< <<K_POSITION, Num(a)>> >>)
    IN  { Obj(<< <<K_attributes, both(1, 0)>>, <<K_indices, Num(2)>>,
                 <<K_material, Num(0)>> >>),
          Obj(<< <<K_attributes, both(1, 0)>>, <<K_indices, Num(2)>> >>),
          Obj(<< <<K_attributes, both(1, 0)>>, <<K_indices, Num(3)>> >>),
          Obj(<< <<K_attributes, one(0)>>,
                 <<K_targets, Arr(<< both(4, 3), one(5) >>)>> >>),
          Obj(<< <<K_attributes, one(0)>>,
                 <<K_targets, Arr(<< one(5), both(4, 3) >>)>> >>),
          Obj(<< <<K_targets, Arr(<< Arr(<< both(4, 3) >>) >>)>> >>),
          Obj(<< <<K_weights, Arr(<< Num(0), Num(1) >>)>> >>),
          Obj(<< <<K_weights, Arr(<< Num(1), Num(0) >>)>> >>),
          Obj(<< <<K_material, Num(1)>>, <<K_weights, Arr(<< Num(0), Num(1) >>)>> >>),
          Obj(<< <<K_material, Undefined>>, <<K_weights, Arr(<< >>)>> >>) }

IgnoreKeyLists == { <<>>, <<K_material>> }

\* value with the keys of its objects written in every order, at every depth
RECURSIVE Reorderings(_)
RECURSIVE ReorderedSeqs(_)
Reorderings(value) ==
    CASE value.t = "obj" ->
            LET n == Len(value.kv)
            IN  { Obj([i \in 1..n |-> <<value.kv[f[i]][1], vs[f[i]]>>]) :
                    f \in Permutations(1..n),
                    vs \in ReorderedSeqs([i \in 1..n |-> value.kv[i][2]]) }
      [] value.t = "arr" -> { Arr(es) : es \in ReorderedSeqs(value.el) }
      [] OTHER -> { value }
ReorderedSeqs(values) ==
    IF Len(values) = 0 THEN { <<>> }
    ELSE { <<h>> \o t : h \in Reorderings(Head(values)), t \in ReorderedSeqs(Tail(values)) }

InitHash ==
    /\ \E shapeA \in HashShapes, shapeB \in HashShapes, keys \in IgnoreKeyLists :
        \E a \in Reorderings(shapeA), b \in Reorderings(shapeB) :
            args = [a |-> a, b |-> b, shapeA |-> shapeA, shapeB |-> shapeB,
                    ignoreKeys |-> keys]
    /\ returned = <<>>
    /\ callPc = "ready"
    /\ ProgramIdle

ObjectHashCodeCall ==
    /\ callPc = "ready"
    /\ returned' = [a |-> objectHashCode(args.a, args.ignoreKeys),
                    b |-> objectHashCode(args.b, args.ignoreKeys),
                    stringA |-> objectString(args.a, args.ignoreKeys),
                    stringB |-> objectString(args.b, args.ignoreKeys),
                    argument |-> ArgumentAfter(args.a, args.ignoreKeys)]
    /\ callPc' = "done"
    /\ UNCHANGED <<args, programVars>>

NextHash == ObjectHashCodeCall

SpecHash == InitHash /\ [][NextHash]_vars

\* C13: two values that differ only in the order of object keys, at any depth and
\* inside arrays too, have the same objectHashCode.
C13_KeyOrderIgnored ==
    (callPc = "done" /\ args.shapeA = args.shapeB) =>
        /\ returned.stringA = returned.stringB
        /\ returned.a = returned.b

C13_Witness ==
    /\ callPc = "done"
    /\ args.shapeA = args.shapeB
    /\ Has(args.a, K_targets) /\ Has(args.a, K_attributes)
    /\ args.a.kv[1][1] # args.b.kv[1][1]
    /\ Get(args.a, K_targets) # Get(args.b, K_targets)
    /\ returned.a = returned.b

\* C14: two values with a structural difference outside ignoreKeys (a different
\* primitive value, array element or key set) are serialised to different
\* strings, numeric elements of an array-valued field included.
C14_DifferenceSerialised ==
    (callPc = "done"
        /\ DeleteKeys(args.shapeA, args.ignoreKeys) # DeleteKeys(args.shapeB, args.ignoreKeys))
    => returned.stringA # returned.stringB

(***************************************************************************)
(* SpecAccessor: getAccessorData applied to a sparse accessor.  All data   *)
(* is UNSIGNED_BYTE (5121), so a byte of a buffer is one component and a   *)
(* Uint8Array is the sequence of its components.                           *)
(***************************************************************************)
getNumComponents(accessorType) ==
    CASE accessorType = "SCALAR" -> 1
      [] accessorType = "VEC2" -> 2
      [] accessorType = "VEC3" -> 3
      [] accessorType = "VEC4" -> 4
      [] accessorType = "MAT2" -> 4
      [] accessorType = "MAT3" -> 9
      [] accessorType = "MAT4" -> 16
      [] OTHER -> 3

\* what a call of getAccessorData ends with: an array, or a RangeError
AccessorOk(array) == [kind |-> "ok", data |-> array]
AccessorThrow == [kind |-> "throw", data |-> <<>>]

NoSparse == [defined |-> FALSE, count |-> 0,
             indices |-> [bufferView |-> 0, byteOffset |-> 0, componentType |-> 0],
             values |-> [bufferView |-> 0, byteOffset |-> 0]]

\* new dataType(bufferView.buffer, byteOffset, length): a view of the whole
\* buffer under the buffer view, a RangeError when it ends after the buffer
TypedArray(buffer, byteOffset, length) ==
    IF byteOffset + length > Len(buffer) THEN AccessorThrow
    ELSE AccessorOk(SubSeq(buffer, byteOffset + 1, byteOffset + length))

\* an array read at an index: undefined outside it, stored in a Uint8Array as 0
ElementOrZero(array, index) ==
    IF index < Len(array) THEN array[index + 1] ELSE 0

\* lines 166-171: for every i < sparse.count, row indices[i] of result is
\* overwritten with row i of values; a later i overwrites an earlier one
PatchRows(result, indices, values, count, numComponents) ==
    [k \in 1..Len(result) |->
        LET hits == { i \in 0..(count - 1) :
                        /\ i < Len(indices)
                        /\ k - 1 >= indices[i + 1] * numComponents
                        /\ k - 1 < indices[i + 1] * numComponents + numComponents }
        IN  IF hits = {} THEN result[k]
            ELSE LET i == CHOOSE h \in hits : \A g \in hits : g <= h
                     j == (k - 1) - indices[i + 1] * numComponents
                 IN  ElementOrZero(values, i * numComponents + j)]

RECURSIVE getAccessorData(_, _)
getAccessorData(gltfAccessor, bufferViews) ==
    LET numComponents == getNumComponents(gltfAccessor.type)
    IN  IF gltfAccessor.sparse.defined
        THEN LET sparse == gltfAccessor.sparse
                 indices == getAccessorData(
                                [type |-> "SCALAR", count |-> sparse.count,
                                 componentType |-> sparse.indices.componentType,
                                 hasBufferView |-> TRUE,
                                 bufferView |-> sparse.indices.bufferView,
                                 byteOffset |-> sparse.indices.byteOffset,
                                 sparse |-> NoSparse], bufferViews)
                 \* type: gltfAccessor.scalar, a field no accessor has
                 values == getAccessorData(
                                [type |-> "undefined", count |-> sparse.count,
                                 componentType |-> gltfAccessor.componentType,
                                 hasBufferView |-> TRUE,
                                 bufferView |-> sparse.values.bufferView,
                                 byteOffset |-> sparse.values.byteOffset,
                                 sparse |-> NoSparse], bufferViews)
                 base == IF gltfAccessor.hasBufferView
                         THEN getAccessorData([gltfAccessor EXCEPT !.sparse = NoSparse],
                                              bufferViews)
                         ELSE AccessorOk([k \in 1..(gltfAccessor.count * numComponents)
                                            |-> 0])
             IN  IF indices.kind = "throw" \/ values.kind = "throw" \/ base.kind = "throw"
                 THEN AccessorThrow
                 ELSE AccessorOk(PatchRows(base.data, indices.data, values.data,
                                           sparse.count, numComponents))
        ELSE LET bufferView == bufferViews[gltfAccessor.bufferView]
             IN  TypedArray(bufferView.buffer,
                            bufferView.byteOffset + gltfAccessor.byteOffset,
                            gltfAccessor.count * numComponents)

\* the accessor types of the inputs
AccessorTypes == { "SCALAR", "VEC2", "VEC3", "VEC4" }

\* strictly increasing lists of element indices below count
RECURSIVE IndexLists(_)
IndexLists(count) ==
    IF count = 0 THEN { <<>> }
    ELSE LET shorter == IndexLists(count - 1)
         IN  shorter \cup { Append(list, count - 1) : list \in shorter }

\* a sparse accessor over one buffer that holds the base data (if any), the
\* sparse indices, the sparse values and pad more bytes, in this order
WriteSparse(type, count, withBase, indices, first, pad) ==
    LET numComponents == getNumComponents(type)
        base == [k \in 1..(count * numComponents) |-> IF withBase THEN 100 + k ELSE 0]
        values == [k \in 1..(Len(indices) * numComponents) |-> first + k]
        stored == IF withBase THEN base ELSE <<>>
    IN  [gltfAccessor |->
            [type |-> type, count |-> count, componentType |-> 5121,
             hasBufferView |-> withBase, bufferView |-> 1, byteOffset |-> 0,
             sparse |-> [defined |-> TRUE, count |-> Len(indices),
                         indices |-> [bufferView |-> 1, byteOffset |-> Len(stored),
                                      componentType |-> 5121],
                         values |-> [bufferView |-> 1,
                                     byteOffset |-> Len(stored) + Len(indices)]]],
         bufferViews |->
            << [buffer |-> stored \o indices \o values \o [k \in 1..pad |-> 0],
                byteOffset |-> 0] >>,
         numComponents |-> numComponents,
         base |-> base, indices |-> indices, values |-> values]

InitAccessor ==
    /\ \E type \in AccessorTypes, count \in 1..MaxCount, withBase \in BOOLEAN,
          first \in { 0, 50 }, pad \in 0..MaxPad :
        \E indices \in IndexLists(count) \ { <<>> } :
            args = WriteSparse(type, count, withBase, indices, first, pad)
    /\ returned = <<>>
    /\ callPc = "ready"
    /\ ProgramIdle

GetAccessorDataCall ==
    /\ callPc = "ready"
    /\ returned' = getAccessorData(args.gltfAccessor, args.bufferViews)
    /\ callPc' = "done"
    /\ UNCHANGED <<args, programVars>>

NextAccessor == GetAccessorDataCall

SpecAccessor == InitAccessor /\ [][NextAccessor]_vars

\* the base data with row indices[i] replaced by row i of the sparse values
PatchedBase ==
    [k \in 1..Len(args.base) |->
        LET row == (k - 1) \div args.numComponents
            j == (k - 1) % args.numComponents
            at == { i \in 1..Len(args.indices) : args.indices[i] = row }
        IN  IF at = {} THEN args.base[k]
            ELSE args.values[((CHOOSE i \in at : TRUE) - 1) * args.numComponents + j + 1]]

\* C15: for a sparse accessor of any element type getAccessorData returns
\* count * componentCount elements: the base data (zeros without a base buffer
\* view) with row indices[i] replaced by row i of the sparse values.
C15_SparsePatched ==
    callPc = "done" => returned = AccessorOk(PatchedBase)

(***************************************************************************)
(* SpecAnim: createAnimation, the quaternion pass (lines 1295-1364).       *)
(* outputs[k] is the AnimData of output k (from 1): its components and its *)
(* flat data array.  A channel names its curve's output and interpolation  *)
(* and its target path.                                                    *)
(***************************************************************************)
\* the four values after d[j .. j+3], as they are (what C16 rules out)
KeepNextKey(d, j) == d
\* lines 1346-1356: the key at j + 4 is negated when its dot product with the
\* key at j is negative (j counts from 0)
FlipNextKey(d, j) ==
    LET dp == d[j + 1] * d[j + 5] + d[j + 2] * d[j + 6]
              + d[j + 3] * d[j + 7] + d[j + 4] * d[j + 8]
    IN  IF dp < 0
        THEN [k \in 1..Len(d) |-> IF k \in (j + 5)..(j + 8) THEN d[k] * (-1) ELSE d[k]]
        ELSE d

\* for (var j = 0; j < len; j += 4), len = d.length - 4
RECURSIVE FlipKeys(_, _)
FlipKeys(d, j) ==
    IF j < Len(d) - 4 THEN FlipKeys(FlipNextKey(d, j), j + 4) ELSE d

\* lines 1321-1323: the outputs noted for the quaternion pass, in channel order
RECURSIVE QuatArrays(_)
QuatArrays(channels) ==
    IF channels = <<>> THEN <<>>
    ELSE LET channel == Head(channels)
         IN  (IF channel.path = "rotation" /\ channel.interpolation # "CUBICSPLINE"
              THEN <<channel.output>> ELSE <<>>) \o QuatArrays(Tail(channels))

\* quatArrays.sort(): the indices (below 10) in ascending order
RECURSIVE SortIndices(_)
SortIndices(indices) ==
    IF indices = <<>> THEN <<>>
    ELSE LET least == CHOOSE i \in 1..Len(indices) :
                        \A k \in 1..Len(indices) : indices[i] <= indices[k]
         IN  <<indices[least]>>
             \o SortIndices([k \in 1..(Len(indices) - 1) |->
                                IF k < least THEN indices[k] ELSE indices[k + 1]])

\* lines 1337-1360: the loop over quatArrays, skipping an index equal to prevIndex
RECURSIVE QuatPass(_, _, _, _)
QuatPass(outputs, quatArrays, i, prevIndex) ==
    IF i > Len(quatArrays) THEN outputs
    ELSE LET index == quatArrays[i]
         IN  IF i = 1 \/ index # prevIndex
             THEN QuatPass(IF outputs[index].components = 4
                           THEN [outputs EXCEPT ![index].data = FlipKeys(@, 0)]
                           ELSE outputs,
                           quatArrays, i + 1, index)
             ELSE QuatPass(outputs, quatArrays, i + 1, prevIndex)

createAnimation(channels, outputs) ==
    QuatPass(outputs, SortIndices(QuatArrays(channels)), 1, 0)

QuatKeys == { <<0, 0, 0, 1>>, <<0, 0, 0, -1>>, <<1, 0, 0, 0>>, <<-1, 0, 1, 0>> }

RECURSIVE Flatten(_)
Flatten(keys) == IF keys = <<>> THEN <<>> ELSE Head(keys) \o Flatten(Tail(keys))

\* the animations of the inputs: a rotation output, and after it nothing, a
\* translation output or a second rotation output
AnimOutputs ==
    { <<[components |-> 4, data |-> Flatten(keys)]>> \o more :
        keys \in UNION { [1..n -> QuatKeys] : n \in 1..MaxKeys },
        more \in { <<>>,
                   <<[components |-> 3, data |-> <<1, 0, -1, -1, 0, 1>>]>>,
                   <<[components |-> 4, data |-> <<0, 0, 0, 1, 0, 0, 0, -1>>]>> } }

AnimChannels ==
    { [output |-> 1, path |-> "rotation", interpolation |-> "LINEAR"],
      [output |-> 1, path |-> "rotation", interpolation |-> "CUBICSPLINE"],
      [output |-> 2, path |-> "rotation", interpolation |-> "STEP"],
      [output |-> 2, path |-> "translation", interpolation |-> "LINEAR"] }

InitAnim ==
    /\ \E outputs \in AnimOutputs :
        \E channels \in UNION { [1..n -> AnimChannels] : n \in 1..MaxChannels } :
            /\ \A k \in 1..Len(channels) : channels[k].output <= Len(outputs)
            /\ args = [channels |-> channels, outputs |-> outputs]
    /\ returned = <<>>
    /\ callPc = "ready"
    /\ ProgramIdle

CreateAnimationCall ==
    /\ callPc = "ready"
    /\ returned' = createAnimation(args.channels, args.outputs)
    /\ callPc' = "done"
    /\ UNCHANGED <<args, programVars>>

NextAnim == CreateAnimationCall

SpecAnim == InitAnim /\ [][NextAnim]_vars

\* output o is targeted by a rotation channel whose interpolation is not cubic
RotationTargets ==
    { o \in 1..Len(args.outputs) :
        \E k \in 1..Len(args.channels) :
            /\ args.channels[k].output = o
            /\ args.channels[k].path = "rotation"
            /\ args.channels[k].interpolation # "CUBICSPLINE" }

KeyAt(d, n) == SubSeq(d, 4 * n - 3, 4 * n)
Negated(key) == [k \in 1..Len(key) |-> 0 - key[k]]
Dot(p, q) == p[1] * q[1] + p[2] * q[2] + p[3] * q[3] + p[4] * q[4]

\* C16: after createAnimation, in every 4-component output targeted by a
\* rotation channel with non-cubic interpolation, adjacent keyframes have a
\* non-negative dot product, every keyframe is the original or its negation and
\* the first is unchanged, however many channels reference the output.
C16_QuaternionContinuity ==
    callPc = "done" =>
        \A o \in RotationTargets :
            LET before == args.outputs[o].data
                after == returned[o].data
                keys == Len(before) \div 4
            IN  args.outputs[o].components = 4 =>
                    /\ Len(after) = Len(before)
                    /\ KeyAt(after, 1) = KeyAt(before, 1)
                    /\ \A n \in 1..keys :
                            \/ KeyAt(after, n) = KeyAt(before, n)
                            \/ KeyAt(after, n) = Negated(KeyAt(before, n))
                    /\ \A n \in 1..(keys - 1) :
                            Dot(KeyAt(after, n), KeyAt(after, n + 1)) >= 0

C16_Witness ==
    /\ callPc = "done"
    /\ Len(args.channels) = 2
    /\ \A k \in 1..2 : args.channels[k] =
            [output |-> 1, path |-> "rotation", interpolation |-> "LINEAR"]
    /\ args.outputs[1].data = <<0, 0, 0, 1, 0, 0, 0, -1>>
    /\ returned[1].data = <<0, 0, 0, 1, 0, 0, 0, 1>>

(***************************************************************************)
(* SpecFlip: createVertexBuffer for the primitives of a document, with the *)
(* vertex-buffer cache, and flipTexCoordVs.  All attributes of a document  *)
(* have one component type, so the storage of a vertex buffer is the       *)
(* sequence of its components as a typed array of that type shows them.    *)
(* Float values are counted in quarters (1.0 is 4).  VertexFormat places   *)
(* every element at the next multiple of 4 bytes.                          *)
(***************************************************************************)
getComponentSizeInBytes(dataType) ==
    CASE dataType = "TYPE_FLOAT32" -> 4
      [] dataType = "TYPE_UINT16" -> 2
      [] dataType = "TYPE_UINT8" -> 1
      [] OTHER -> 0

\* flip(floatOffsets, Float32Array, 1.0), (shortOffsets, Uint16Array, 65535),
\* (byteOffsets, Uint8Array, 255)
FlipOne(dataType) ==
    CASE dataType = "TYPE_FLOAT32" -> 4
      [] dataType = "TYPE_UINT16" -> 65535
      [] OTHER -> 255

\* elementOrder, and the components of each semantic
ElementOrder == << "POSITION", "NORMAL", "TEXCOORD0", "TEXCOORD1" >>
ElementComponents(name) == IF name \in { "POSITION", "NORMAL" } THEN 3 ELSE 2

\* bytes an element takes in a vertex
ElementBytes(name, dataType) ==
    ((ElementComponents(name) * getComponentSizeInBytes(dataType) + 3) \div 4) * 4

\* new VertexFormat(device, vertexDesc): the elements in engine order with
\* their byte offset and stride
VertexFormat(semantics, dataType) ==
    LET present == SelectSeq(ElementOrder, LAMBDA name : name \in semantics)
        offsetOf(i) == LET bytes[n \in 0..Len(present)] ==
                                IF n = 0 THEN 0
                                ELSE bytes[n - 1] + ElementBytes(present[n], dataType)
                       IN  bytes[i - 1]
        total == offsetOf(Len(present) + 1)
    IN  [i \in 1..Len(present) |->
            [name |-> present[i], dataType |-> dataType, offset |-> offsetOf(i),
             stride |-> total, numComponents |-> ElementComponents(present[i])]]

\* a vertex buffer that keeps its V values (what C17 rules out)
KeepTexCoordVs(vertexBuffer) == vertexBuffer
\* flipTexCoordVs: typedArray[index] = one - typedArray[index] for every vertex
\* of every TEXCOORD0/TEXCOORD1 element (index from 0 in the code)
flipTexCoordVs(vertexBuffer) ==
    LET elements == vertexBuffer.format
        flipped == { index \in 0..(Len(vertexBuffer.storage) - 1) :
                        \E i \in 1..Len(elements), j \in 0..(vertexBuffer.numVertices - 1) :
                            /\ elements[i].name \in { "TEXCOORD0", "TEXCOORD1" }
                            /\ LET size == getComponentSizeInBytes(elements[i].dataType)
                               IN  index = elements[i].offset \div size + 1
                                           + j * (elements[i].stride \div size) }
    IN  [vertexBuffer EXCEPT !.storage =
            [k \in 1..Len(@) |->
                IF (k - 1) \in flipped
                THEN FlipOne(vertexBuffer.format[1].dataType) - @[k] ELSE @[k]]]

\* createVertexBufferInternal: the source data copied into a new interleaved
\* vertex buffer, then flipped unless disableFlipV
createVertexBufferInternal(sourceDesc, dataType, numVertices, disableFlipV) ==
    LET format == VertexFormat(DOMAIN sourceDesc, dataType)
        size == getComponentSizeInBytes(dataType)
        stride == format[1].stride \div size
        cell(k) ==
            LET j == (k - 1) \div stride
                at == (k - 1) % stride
                hit == { i \in 1..Len(format) :
                            /\ at >= format[i].offset \div size
                            /\ at < format[i].offset \div size + format[i].numComponents }
            IN  IF hit = {} THEN 0
                ELSE LET i == CHOOSE h \in hit : TRUE
                     IN  sourceDesc[format[i].name][j + 1][at - format[i].offset \div size + 1]
        vertexBuffer == [format |-> format, numVertices |-> numVertices,
                         storage |-> [k \in 1..(numVertices * stride) |-> cell(k)]]
    IN  IF disableFlipV THEN vertexBuffer ELSE flipTexCoordVs(vertexBuffer)

\* gltfToEngineSemanticMap, for the attributes of the inputs
EngineSemantic(attrib) ==
    CASE attrib = "TEXCOORD_0" -> "TEXCOORD0"
      [] attrib = "TEXCOORD_1" -> "TEXCOORD1"
      [] OTHER -> attrib

\* createVertexBuffer: the vertex buffer dictionary after the call for a
\* primitive's attributes (vbKey is the set of Semantic:accessorIndex ids)
createVertexBuffer(attributes, accessors, dataType, numVertices, disableFlipV, vertexBufferDict) ==
    LET vbKey == attributes
    IN  IF vbKey \in DOMAIN vertexBufferDict THEN vertexBufferDict
        ELSE LET given == [semantic \in { EngineSemantic(a[1]) : a \in attributes } |->
                             accessors[(CHOOSE a \in attributes :
                                            EngineSemantic(a[1]) = semantic)[2]]]
                 \* generateNormals
                 normals == [j \in 1..numVertices |-> <<0, 0, 0>>]
                 sourceDesc == [semantic \in DOMAIN given \cup { "NORMAL" } |->
                                   IF semantic \in DOMAIN given THEN given[semantic]
                                   ELSE normals]
                 vb == createVertexBufferInternal(sourceDesc, dataType, numVertices,
                                                  disableFlipV)
             IN  [key \in DOMAIN vertexBufferDict \cup { vbKey } |->
                    IF key = vbKey THEN vb ELSE vertexBufferDict[key]]

RECURSIVE CreateVertexBuffers(_, _, _, _, _, _, _)
CreateVertexBuffers(primitives, i, accessors, dataType, numVertices, disableFlipV, dict) ==
    IF i > Len(primitives) THEN dict
    ELSE CreateVertexBuffers(primitives, i + 1, accessors, dataType, numVertices,
            disableFlipV,
            createVertexBuffer(primitives[i], accessors, dataType, numVertices,
                               disableFlipV, dict))

\* createResources, line 1831: gltf.asset && gltf.asset.generator === 'PlayCanvas'
DisableFlipV(generator) == generator = "PlayCanvas"

Generators == { "PlayCanvas", "Blender", "none" }
DataTypes == { "TYPE_FLOAT32", "TYPE_UINT16", "TYPE_UINT8" }

\* the attributes of a primitive: accessor 1 holds positions, 2 and 3 UVs
AttributeSets ==
    { { <<"POSITION", 1>> },
      { <<"POSITION", 1>>, <<"TEXCOORD_0", 2>> },
      { <<"POSITION", 1>>, <<"TEXCOORD_0", 2>>, <<"TEXCOORD_1", 3>> } }

\* the V values of the inputs: 0.25 and 1.0, or 0 and 64
InputVs(dataType) == IF dataType = "TYPE_FLOAT32" THEN { 1, 4 } ELSE { 0, 64 }

InitFlip ==
    /\ \E generator \in Generators, dataType \in DataTypes, numVertices \in 1..MaxVertices :
        \E vs \in [1..numVertices -> InputVs(dataType)],
           primitives \in UNION { [1..n -> AttributeSets] : n \in 1..MaxPrims } :
            args = [generator |-> generator, dataType |-> dataType,
                    numVertices |-> numVertices, primitives |-> primitives,
                    accessors |-> << [j \in 1..numVertices |-> <<j, 2, 3>>],
                                     [j \in 1..numVertices |-> <<3, vs[j]>>],
                                     [j \in 1..numVertices |-> <<vs[j], 3>>] >>]
    /\ returned = <<>>
    /\ callPc = "ready"
    /\ ProgramIdle

CreateVertexBuffersCall ==
    /\ callPc = "ready"
    /\ returned' = CreateVertexBuffers(args.primitives, 1, args.accessors, args.dataType,
                                       args.numVertices, DisableFlipV(args.generator),
                                       << >>)
    /\ callPc' = "done"
    /\ UNCHANGED <<args, programVars>>

NextFlip == CreateVertexBuffersCall

SpecFlip == InitFlip /\ [][NextFlip]_vars

\* component k (from 1) of vertex j of the element named name in vertex buffer vb
BuiltValue(vb, name, j, k) ==
    LET e == vb.format[CHOOSE i \in 1..Len(vb.format) : vb.format[i].name = name]
        size == getComponentSizeInBytes(e.dataType)
    IN  vb.storage[(j - 1) * (e.stride \div size) + e.offset \div size + k]

UriBeforeHook(arrayBuffer, uri) ==
    CASE uri = "dataUri" -> "dataUri"
      [] uri = "uri" -> "http"
      [] arrayBuffer -> "hook"
      [] OTHER -> "binaryChunk"
\* lines 2098-2132: where the bytes of a buffer come from, given whether the
\* hook yielded an arrayBuffer and what uri the buffer has
BufferSource(arrayBuffer, uri) ==
    IF arrayBuffer THEN "hook"
    ELSE IF uri # "none"
         THEN (IF uri = "dataUri" THEN "dataUri" ELSE "http")
         ELSE "binaryChunk"

BufferUris == { "dataUri", "uri", "none" }

InitBuffers ==
    /\ \E gltfBuffers \in UNION { [1..n -> BufferUris] : n \in 0..MaxBuffers },
          binaryChunk \in BOOLEAN :
        args = [buffers |-> gltfBuffers, binaryChunk |-> binaryChunk]
    /\ returned = <<>>
    /\ callPc = "ready"
    /\ ProgramIdle

\* loadBuffersAsync up to the end of its loop: every hook has been called
LoadBuffersAsyncCall ==
    /\ callPc = "ready"
    /\ LET n == Len(args.buffers)
       IN  returned' = [st |-> [i \in 1..n |-> "hook"],
                        hook |-> [i \in 1..n |-> "none"],
                        result |-> [i \in 1..n |-> "unset"],
                        stored |-> [i \in 1..n |-> 0],
                        decoded |-> [i \in 1..n |-> 0],
                        fetched |-> [i \in 1..n |-> 0],
                        remaining |-> n,
                        callbacks |-> IF n = 0 THEN <<"result">> ELSE <<>>]
    /\ callPc' = "loading"
    /\ UNCHANGED <<args, programVars>>

\* onLoad(index, buffer) on the state st of the call
StoreBuffer(st, i, source) ==
    [st EXCEPT !.st[i] = "done",
               !.result[i] = IF source = "binaryChunk" /\ ~args.binaryChunk
                             THEN "null" ELSE source,
               !.stored[i] = @ + 1,
               !.remaining = @ - 1,
               !.callbacks = IF BuffersJoined(st.remaining - 1)
                             THEN Append(@, "result") ELSE @]

\* the callback handed to options.buffer.processAsync
BufferProcessed(i) ==
    /\ callPc = "loading"
    /\ returned.st[i] = "hook"
    /\ \E answer \in { "err", "arrayBuffer", "nothing" } :
        LET answered == [returned EXCEPT !.hook[i] = answer]
            source == BufferSource(answer = "arrayBuffer", args.buffers[i])
        IN  returned' =
                IF answer = "err"
                THEN [answered EXCEPT !.st[i] = "failed", !.callbacks = Append(@, "err")]
                ELSE IF source = "http"
                THEN [answered EXCEPT !.st[i] = "http", !.fetched[i] = @ + 1]
                ELSE IF source = "dataUri"
                THEN StoreBuffer([answered EXCEPT !.decoded[i] = @ + 1], i, source)
                ELSE StoreBuffer(answered, i, source)
    /\ UNCHANGED <<args, callPc, programVars>>

\* the callback handed to http.get
BufferFetched(i) ==
    /\ callPc = "loading"
    /\ returned.st[i] = "http"
    /\ \E err \in BOOLEAN :
        returned' = IF err
                    THEN [returned EXCEPT !.st[i] = "failed",
                                          !.callbacks = Append(@, "err")]
                    ELSE StoreBuffer(returned, i, "http")
    /\ UNCHANGED <<args, callPc, programVars>>

NextBuffers ==
    \/ LoadBuffersAsyncCall
    \/ \E i \in 1..Len(args.buffers) : BufferProcessed(i)
    \/ \E i \in 1..Len(args.buffers) : BufferFetched(i)

SpecBuffers == InitBuffers /\ [][NextBuffers]_vars

\* C18: every buffer gets its bytes from exactly one source, by priority: the
\* hook's data, else the inline data URI, else the fetch of the uri, else the
\* binary chunk; no lower source is consulted when a higher applies, and the
\* buffer is stored once, at its own index.
C18_OneSourceByPriority ==
    callPc = "loading" =>
        \A i \in 1..Len(args.buffers) :
            LET uri == args.buffers[i]
                hooked == returned.hook[i] = "arrayBuffer"
            IN  /\ returned.stored[i] <= 1
                /\ returned.stored[i] = 1 <=> returned.st[i] = "done"
                /\ returned.decoded[i] + returned.fetched[i] <= 1
                /\ returned.decoded[i] = 1 => (~hooked /\ uri = "dataUri")
                /\ returned.fetched[i] = 1 => (~hooked /\ uri = "uri")
                /\ returned.st[i] = "done" =>
                    /\ hooked => (returned.result[i] = "hook"
                                    /\ returned.decoded[i] = 0 /\ returned.fetched[i] = 0)
                    /\ (~hooked /\ uri = "dataUri") =>
                            (returned.result[i] = "dataUri" /\ returned.decoded[i] = 1)
                    /\ (~hooked /\ uri = "uri") =>
                            (returned.result[i] = "http" /\ returned.fetched[i] = 1)
                    /\ (~hooked /\ uri = "none") =>
                            (returned.result[i] \in { "binaryChunk", "null" }
                                /\ returned.decoded[i] = 0 /\ returned.fetched[i] = 0)

C18_Witness ==
    /\ callPc = "loading"
    /\ args.buffers = << "uri", "dataUri" >>
    /\ returned.hook = << "nothing", "arrayBuffer" >>
    /\ returned.result = << "http", "hook" >>
    /\ returned.callbacks = << "result" >>

\* C19: a buffer without uri is bound to the binary chunk, and without a binary
\* chunk (a .gltf file or a 1-chunk GLB) its resolution fails with an error to the
\* completion callback; no buffer is resolved to an absent value.
C19_MissingBinaryChunkFails ==
    \A i \in 1..Len(buffers) :
        buffers[i] = "absent" => (bufSt[i] # "done" /\ Errors # {})

(***************************************************************************)
(* SpecParse: GlbParser.parse, the synchronous entry point.  Every stage   *)
(* calls back before it returns (the default hooks), so a call is one      *)
(* step.  args is the file and the document in it; returned is what the    *)
(* call leaves: the value returned, the number of errors logged with       *)
(* console.error, and whether an exception left the call.                  *)
(***************************************************************************)
ParseOutcome(value, errors, exception) ==
    [result |-> value, logged |-> errors, thrown |-> exception]

\* parseBufferViewsAsync(gltf, [chunks.binaryChunk], options, ...) with the
\* default hook: "throw" for a TypeError (gltf.bufferViews.length without
\* bufferViews, buffer.buffer on a buffer that is null or undefined), "none"
\* when the callback is never called (no views), "result" otherwise.
\* bufferViews says whether the document has the list, and the views' buffer
\* indices.
ParseViews(bufferViews, binaryChunk) ==
    IF ~bufferViews.present THEN "throw"
    ELSE IF Len(bufferViews.views) = 0 THEN "none"
    ELSE IF \E i \in 1..Len(bufferViews.views) :
                bufferViews.views[i] # 0 \/ ~binaryChunk.present
         THEN "throw"
         ELSE "result"

\* GlbParser.parse
parse(name, bytes, gltf, bufferViews, meshInput) ==
    LET c == parseChunk(name, bytes)
    IN  IF c.kind = "throw" THEN ParseOutcome("null", 0, TRUE)
        ELSE IF c.kind = "err" THEN ParseOutcome("null", 1, FALSE)
        ELSE IF gltf = "syntaxError" THEN ParseOutcome("null", 0, TRUE)
        ELSE IF gltf = "oldVersion" THEN ParseOutcome("null", 1, FALSE)
        ELSE LET views == ParseViews(bufferViews, c.binaryChunk)
             IN  IF views = "throw" THEN ParseOutcome("null", 0, TRUE)
                 ELSE IF views = "none" THEN ParseOutcome("null", 0, FALSE)
                 ELSE LET built == createMeshGroups(meshInput.meshes, TRUE, meshInput.mode)
                      IN  ParseOutcome("bundle", built.errors, FALSE)

\* gltf.bufferViews: absent, or the buffer index of every view
ParseBufferViews ==
    { [present |-> FALSE, views |-> <<>>] }
        \cup { [present |-> TRUE, views |-> v] :
                    v \in UNION { [1..n -> 0..1] : n \in 0..MaxViews } }

InitParse ==
    /\ \E input \in PipelineInputs,
          gltf \in { "document", "oldVersion", "syntaxError" },
          bufferViews \in ParseBufferViews,
          meshInput \in PipelineMeshInputs :
        args = [filename |-> input.filename,
                data |-> IF input.filename = "glb"
                         THEN EncodeGlb(input.magic, input.version, input.lengthMode,
                                        input.chunks, input.overrun)
                         ELSE <<123>>,
                gltf |-> gltf, bufferViews |-> bufferViews, meshInput |-> meshInput]
    /\ returned = <<>>
    /\ callPc = "ready"
    /\ ProgramIdle

ParseCall ==
    /\ callPc = "ready"
    /\ returned' = parse(args.filename, args.data, args.gltf, args.bufferViews,
                         args.meshInput)
    /\ callPc' = "done"
    /\ UNCHANGED <<args, programVars>>

NextParse == ParseCall

SpecParse == InitParse /\ [][NextParse]_vars

\* C20: GlbParser.parse never throws: for every input it logs the error and
\* returns null, and it returns a bundle only when every stage succeeded (no
\* error was logged).
C20_ParseNeverThrows ==
    callPc = "done" =>
        /\ ~returned.thrown
        /\ returned.result = "null" => returned.logged >= 1
        /\ returned.result = "bundle" => returned.logged = 0

\* C21: in a successful parseAsync, global.preprocess is invoked exactly once and
\* before every step that invokes a hook of another category, and
\* global.postprocess exactly once, after every other hook and immediately before
\* the completion callback.
C21_GlobalHooksFirstAndLast ==
    Results # {} =>
        /\ Len(hooks) >= 2
        /\ hooks[1] = "global.preprocess"
        /\ hooks[Len(hooks)] = "global.postprocess"
        /\ \A k \in 2..(Len(hooks) - 1) :
                hooks[k] \notin { "global.preprocess", "global.postprocess" }
        /\ delivered[Len(delivered)].kind = "result"

(***************************************************************************)
(* SpecRegistry: a GlbExtensionRegistry and the calls made on it.  args is *)
(* the last call, returned the registry after it: _extensionIndex (for     *)
(* every type, the callback registered under every name, 0 for none), the  *)
(* index as it was before the call, and what the call returned.            *)
(* A callback is a number from 1; the item an extension callback returns   *)
(* is the item it was given with the call appended.                        *)
(***************************************************************************)
GLB_EXTENSION_TYPES ==
    { "node", "scene", "texture", "material", "mesh", "skin", "animation" }
ExtensionNames == { "KHR_a", "KHR_b", "KHR_c" }
ExtensionCallbacks == 1..2

\* getEmptyExtensionIndex
getEmptyExtensionIndex ==
    [type \in GLB_EXTENSION_TYPES |-> [name \in ExtensionNames |-> 0]]

\* this._extensionIndex.hasOwnProperty(type)
HasType(index, type) == type \in DOMAIN index
\* extensions.hasOwnProperty(name)
HasName(extensions, name) == extensions[name] # 0

Returns(kind, value, item) == [kind |-> kind, value |-> value, item |-> item]
ReturnsUndefined == Returns("undefined", 0, <<>>)

\* an add that replaces the callback already registered (what C23 rules out)
addOverwriting(index, type, name, callback) ==
    IF ~HasType(index, type) THEN [index |-> index, ret |-> Returns("false", 0, <<>>)]
    ELSE [index |-> [index EXCEPT ![type][name] = callback],
          ret |-> Returns("true", 0, <<>>)]
\* GlbExtensionRegistry.prototype.add
add(index, type, name, callback) ==
    IF ~HasType(index, type) THEN [index |-> index, ret |-> Returns("false", 0, <<>>)]
    ELSE IF HasName(index[type], name)
    THEN [index |-> index, ret |-> Returns("false", 0, <<>>)]
    ELSE [index |-> [index EXCEPT ![type][name] = callback],
          ret |-> Returns("true", 0, <<>>)]

\* GlbExtensionRegistry.prototype.remove
remove(index, type, name) ==
    IF ~HasType(index, type) THEN [index |-> index, ret |-> ReturnsUndefined]
    ELSE IF ~HasName(index[type], name) THEN [index |-> index, ret |-> ReturnsUndefined]
    ELSE [index |-> [index EXCEPT ![type][name] = 0], ret |-> ReturnsUndefined]

\* GlbExtensionRegistry.prototype.removeAll: the first test reads this._type, a
\* field no code of the class ever sets, so it is undefined in every call
removeAll(index, type) ==
    LET this_type == "undefined"
    IN  IF this_type = "undefined"
        THEN [index |-> getEmptyExtensionIndex, ret |-> ReturnsUndefined]
        ELSE IF ~HasType(index, type) THEN [index |-> index, ret |-> ReturnsUndefined]
        ELSE [index |-> [index EXCEPT ![type] = [name \in ExtensionNames |-> 0]],
              ret |-> ReturnsUndefined]

\* GlbExtensionRegistry.prototype.find
find(index, type, name) ==
    IF ~HasType(index, type) THEN Returns("null", 0, <<>>)
    ELSE IF ~HasName(index[type], name) THEN Returns("null", 0, <<>>)
    ELSE Returns("callback", index[type][name], <<>>)

\* extensionCallback(prevItem, extensionData, gltf)
CallExtension(callback, prevItem, name, extensionData) ==
    Append(prevItem, [callback |-> callback, name |-> name, data |-> extensionData])

\* extensionDataByName: whether it is present, its keys in their order, and the
\* data under every key
NoExtensionData == [present |-> FALSE, keys |-> <<>>, data |-> <<>>]
ObjectKeys(extensionDataByName) ==
    IF extensionDataByName.present THEN extensionDataByName.keys ELSE <<>>

RECURSIVE ReduceExtensions(_, _, _, _, _)
ReduceExtensions(extensionCallbacks, extensionDataByName, keys, k, prevItem) ==
    IF k > Len(keys) THEN prevItem
    ELSE ReduceExtensions(extensionCallbacks, extensionDataByName, keys, k + 1,
            IF HasName(extensionCallbacks, keys[k])
            THEN CallExtension(extensionCallbacks[keys[k]], prevItem, keys[k],
                               extensionDataByName.data[k])
            ELSE prevItem)

\* an apply that runs the callbacks of every type (what C24 rules out)
applyEveryType(index, type, item, extensionDataByName) ==
    LET keys == ObjectKeys(extensionDataByName)
        anyType == [name \in ExtensionNames |->
                        IF \E t \in DOMAIN index : index[t][name] # 0
                        THEN index[CHOOSE t \in DOMAIN index : index[t][name] # 0][name]
                        ELSE 0]
    IN  Returns("item", 0, ReduceExtensions(anyType, extensionDataByName, keys, 1, item))
\* GlbExtensionRegistry.prototype.applyExtensions
applyExtensions(index, type, item, extensionDataByName) ==
    IF ~HasType(index, type) THEN Returns("item", 0, item)
    ELSE Returns("item", 0,
                 ReduceExtensions(index[type], extensionDataByName,
                                  ObjectKeys(extensionDataByName), 1, item))

\* the types, names and extension data the calls are made with
CallTypes == { "node", "mesh", "buffer" }
CallNames == { "KHR_a", "KHR_b" }
DistinctKeys ==
    { keys \in UNION { [1..n -> ExtensionNames] : n \in 0..2 } :
        \A i, j \in 1..Len(keys) : i # j => keys[i] # keys[j] }
ExtensionDatas ==
    { NoExtensionData }
        \cup { [present |-> TRUE, keys |-> keys, data |-> [k \in 1..Len(keys) |-> 10 * k]] :
                    keys \in DistinctKeys }

NoCall == [op |-> "new", type |-> "undefined", name |-> "none", callback |-> 0,
           extensionDataByName |-> NoExtensionData]
Call(op, type, name, callback, extensionDataByName) ==
    [op |-> op, type |-> type, name |-> name, callback |-> callback,
     extensionDataByName |-> extensionDataByName]

\* new GlbExtensionRegistry()
InitRegistry ==
    /\ args = NoCall
    /\ returned = [index |-> getEmptyExtensionIndex, before |-> getEmptyExtensionIndex,
                   ret |-> ReturnsUndefined]
    /\ callPc = "registry"
    /\ ProgramIdle

RegistryStep(call, after, ret) ==
    /\ callPc = "registry"
    /\ args' = call
    /\ returned' = [index |-> after, before |-> returned.index, ret |-> ret]
    /\ UNCHANGED <<callPc, programVars>>

AddCall ==
    \E type \in CallTypes, name \in CallNames, callback \in ExtensionCallbacks :
        LET r == add(returned.index, type, name, callback)
        IN  RegistryStep(Call("add", type, name, callback, NoExtensionData), r.index, r.ret)

RemoveCall ==
    \E type \in CallTypes, name \in CallNames :
        LET r == remove(returned.index, type, name)
        IN  RegistryStep(Call("remove", type, name, 0, NoExtensionData), r.index, r.ret)

RemoveAllCall ==
    \E type \in CallTypes \cup { "undefined" } :
        LET r == removeAll(returned.index, type)
        IN  RegistryStep(Call("removeAll", type, "none", 0, NoExtensionData), r.index, r.ret)

FindCall ==
    \E type \in CallTypes, name \in CallNames :
        RegistryStep(Call("find", type, name, 0, NoExtensionData), returned.index,
                     find(returned.index, type, name))

ApplyExtensionsCall ==
    \E type \in CallTypes, extensionDataByName \in ExtensionDatas :
        RegistryStep(Call("applyExtensions", type, "none", 0, extensionDataByName),
                     returned.index,
                     applyExtensions(returned.index, type, <<>>, extensionDataByName))

NextRegistry ==
    \/ AddCall
    \/ RemoveCall
    \/ RemoveAllCall
    \/ FindCall
    \/ ApplyExtensionsCall

SpecRegistry == InitRegistry /\ [][NextRegistry]_vars

RegistryCall(op) == callPc = "registry" /\ args.op = op

\* C22: removeAll(type) with a valid type removes only the extensions registered
\* under that type (every other type keeps what it had); without a type it
\* empties every type.
C22_RemoveAllOnlyThatType ==
    RegistryCall("removeAll") =>
        IF args.type = "undefined"
        THEN returned.index = getEmptyExtensionIndex
        ELSE IF args.type \in GLB_EXTENSION_TYPES
        THEN \A t \in GLB_EXTENSION_TYPES, n \in ExtensionNames :
                returned.index[t][n] = IF t = args.type THEN 0 ELSE returned.before[t][n]
        ELSE returned.index = returned.before

\* C23: add returns true exactly when the type is valid and the name is not
\* registered under it, and then registers the callback there and nowhere else;
\* otherwise it returns false and changes nothing.  remove takes away that one
\* registration only.  find returns the callback in effect under (type, name), or
\* null.  The same name under two types is registered independently.
C23_AddRemoveFind ==
    /\ RegistryCall("add") =>
        LET ok == /\ args.type \in GLB_EXTENSION_TYPES
                  /\ returned.before[args.type][args.name] = 0
        IN  /\ returned.ret.kind = (IF ok THEN "true" ELSE "false")
            /\ \A t \in GLB_EXTENSION_TYPES, n \in ExtensionNames :
                returned.index[t][n] =
                    IF ok /\ t = args.type /\ n = args.name THEN args.callback
                    ELSE returned.before[t][n]
    /\ RegistryCall("remove") =>
        \A t \in GLB_EXTENSION_TYPES, n \in ExtensionNames :
            returned.index[t][n] =
                IF t = args.type /\ n = args.name THEN 0 ELSE returned.before[t][n]
    /\ RegistryCall("find") =>
        /\ returned.index = returned.before
        /\ IF args.type \in GLB_EXTENSION_TYPES /\ returned.index[args.type][args.name] # 0
           THEN returned.ret.kind = "callback"
                /\ returned.ret.value = returned.index[args.type][args.name]
           ELSE returned.ret.kind = "null"

\* the same name registered under two types with different callbacks, and found
C23_Witness ==
    /\ RegistryCall("find")
    /\ args.type = "mesh" /\ args.name = "KHR_a"
    /\ returned.index["node"]["KHR_a"] = 1
    /\ returned.index["mesh"]["KHR_a"] = 2
    /\ returned.ret.value = 2

\* the keys of the extension data that are registered under the type, in key order
RegisteredKeys ==
    IF args.type \in GLB_EXTENSION_TYPES /\ args.extensionDataByName.present
    THEN { k \in 1..Len(args.extensionDataByName.keys) :
            returned.index[args.type][args.extensionDataByName.keys[k]] # 0 }
    ELSE {}

\* C24: applyExtensions returns the item after exactly the callbacks registered
\* under the type whose name is a key of the extension data, in key order, each
\* given the previous result and its own data; the item is returned unchanged
\* when no key is registered, the data is absent or the type is invalid; no
\* callback of another type is invoked.
C24_FoldOverRegisteredKeys ==
    RegistryCall("applyExtensions") =>
        LET item == returned.ret.item
            keys == args.extensionDataByName.keys
        IN  /\ returned.index = returned.before
            /\ Len(item) = Cardinality(RegisteredKeys)
            /\ \A i \in 1..Len(item) :
                /\ \E k \in RegisteredKeys :
                    /\ Cardinality({ j \in RegisteredKeys : j <= k }) = i
                    /\ item[i].name = keys[k]
                    /\ item[i].data = args.extensionDataByName.data[k]
                    /\ item[i].callback = returned.index[args.type][keys[k]]

\* two registered keys applied in key order, while the other type holds another
\* callback under one of the names
C24_Witness ==
    /\ RegistryCall("applyExtensions")
    /\ args.type = "node"
    /\ args.extensionDataByName.keys = << "KHR_b", "KHR_a" >>
    /\ Len(returned.ret.item) = 2
    /\ returned.ret.item[1].name = "KHR_b"
    /\ returned.index["mesh"]["KHR_a"] # 0
    /\ returned.index["mesh"]["KHR_a"] # returned.index["node"]["KHR_a"]

(***************************************************************************)
(* SpecParses: two parseAsync calls on one parser whose texture loads      *)
(* interleave.  args is the document of either call (the image of every    *)
(* texture, the hash and the vertex buffer key of every primitive);        *)
(* returned is the state of either call.  An object (asset, mesh, vertex   *)
(* buffer) is named by the call that created it and the texture or         *)
(* primitive it was created for.                                           *)
(***************************************************************************)
Parses == 1..2
NoObject == [parse |-> 0, index |-> 0]
Object(p, i) == [parse |-> p, index |-> i]
ImageIndices == 1..2
PrimitiveHashes == { "h1", "h2" }
VertexBufferKeys == { "POSITION:0", "POSITION:1" }

\* a cache that outlives the call: every call starts with what the calls before
\* it cached (what C25 rules out)
KeptCache(existing, empty) == existing
\* var assets = []; var vertexBufferDict = {}; var meshByPrimitiveHash = {};
\* a local of the call, whatever other calls hold
NewCache(existing, empty) == empty

EmptyAssets == [i \in ImageIndices |-> NoObject]
EmptyMeshCache == [h \in PrimitiveHashes |-> NoObject]
EmptyVertexBufferDict == [k \in VertexBufferKeys |-> NoObject]

NoParse == [st |-> "ready", assets |-> EmptyAssets, texSt |-> <<>>, result |-> <<>>,
            meshByPrimitiveHash |-> EmptyMeshCache,
            vertexBufferDict |-> EmptyVertexBufferDict, meshGroup |-> <<>>]

\* createMeshGroup's forEach over the primitives of call p, from primitive i
RECURSIVE BuildMeshes(_, _, _, _)
BuildMeshes(st, p, primitives, i) ==
    IF i > Len(primitives) THEN st
    ELSE LET primitiveHash == primitives[i].hash
             vbKey == primitives[i].vbKey
         IN  IF st.meshByPrimitiveHash[primitiveHash] # NoObject
             THEN BuildMeshes(
                    [st EXCEPT !.meshGroup =
                        Append(@, [mesh |-> st.meshByPrimitiveHash[primitiveHash],
                                   vertexBuffer |-> NoObject])],
                    p, primitives, i + 1)
             ELSE LET vb == IF st.vertexBufferDict[vbKey] # NoObject
                            THEN st.vertexBufferDict[vbKey] ELSE Object(p, i)
                  IN  BuildMeshes(
                        [st EXCEPT !.vertexBufferDict[vbKey] = vb,
                                   !.meshByPrimitiveHash[primitiveHash] = Object(p, i),
                                   !.meshGroup = Append(@, [mesh |-> Object(p, i),
                                                            vertexBuffer |-> vb])],
                        p, primitives, i + 1)

\* loadTexturesAsync's result at the join (the first texture of an image gets its
\* asset, the others a clone of it), then createResources with createMeshGroups
FinishParse(st, p, other) ==
    LET result == [t \in 1..Len(st.texSt) |-> st.assets[args[p].textures[t]]]
        caches == [st EXCEPT !.st = "done",
                             !.result = result,
                             !.meshByPrimitiveHash =
                                NewCache(other.meshByPrimitiveHash, EmptyMeshCache),
                             !.vertexBufferDict =
                                NewCache(other.vertexBufferDict, EmptyVertexBufferDict)]
    IN  BuildMeshes(caches, p, args[p].primitives, 1)

ParseDocuments ==
    { [textures |-> t, primitives |-> m] :
        t \in { <<1>>, <<1, 1>>, <<1, 2>> },
        m \in { << [hash |-> "h1", vbKey |-> "POSITION:0"] >>,
                << [hash |-> "h1", vbKey |-> "POSITION:0"],
                   [hash |-> "h1", vbKey |-> "POSITION:0"] >>,
                << [hash |-> "h1", vbKey |-> "POSITION:0"],
                   [hash |-> "h2", vbKey |-> "POSITION:0"] >> } }

InitParses ==
    /\ args \in [Parses -> ParseDocuments]
    /\ returned = [p \in Parses |-> NoParse]
    /\ callPc = "parses"
    /\ ProgramIdle

\* parseAsync up to the end of loadTexturesAsync's loop
StartParse(p) ==
    /\ callPc = "parses"
    /\ returned[p].st = "ready"
    /\ \E other \in Parses \ {p} :
        returned' = [returned EXCEPT
            ![p].st = "textures",
            ![p].assets = NewCache(returned[other].assets, EmptyAssets),
            ![p].texSt = [t \in 1..Len(args[p].textures) |-> "hook"]]
    /\ UNCHANGED <<args, callPc, programVars>>

\* onLoad(textureIndex, imageIndex) of call p on its state st
TextureDone(st, p, t) ==
    LET done == [st EXCEPT !.texSt[t] = "done"]
    IN  IF \A u \in 1..Len(done.texSt) : done.texSt[u] = "done"
        THEN FinishParse(done, p, returned[CHOOSE other \in Parses : other # p])
        ELSE done

\* the callback handed to options.texture.processAsync: if (assets[gltfImageIndex])
TextureProcessed(p, t) ==
    /\ callPc = "parses"
    /\ returned[p].st = "textures"
    /\ returned[p].texSt[t] = "hook"
    /\ returned' = [returned EXCEPT ![p] =
            IF returned[p].assets[args[p].textures[t]] # NoObject
            THEN TextureDone(returned[p], p, t)
            ELSE [returned[p] EXCEPT !.texSt[t] = "load"]]
    /\ UNCHANGED <<args, callPc, programVars>>

\* the callback of loadImageAsync: assets[gltfImageIndex] = textureAsset; onLoad(...)
ImageLoaded(p, t) ==
    /\ callPc = "parses"
    /\ returned[p].st = "textures"
    /\ returned[p].texSt[t] = "load"
    /\ returned' = [returned EXCEPT ![p] =
            TextureDone([returned[p] EXCEPT !.assets[args[p].textures[t]] = Object(p, t)],
                        p, t)]
    /\ UNCHANGED <<args, callPc, programVars>>

NextParses ==
    \/ \E p \in Parses : StartParse(p)
    \/ \E p \in Parses : \E t \in 1..Len(returned[p].texSt) : TextureProcessed(p, t)
    \/ \E p \in Parses : \E t \in 1..Len(returned[p].texSt) : ImageLoaded(p, t)

SpecParses == InitParses /\ [][NextParses]_vars

\* C25: the mesh cache, the vertex buffer cache and the per-image asset cache
\* belong to one parse call: no mesh, vertex buffer or image asset that one
\* parse cached is ever returned to another, however the loads interleave.
C25_CachesPerParse ==
    callPc = "parses" =>
        \A p \in Parses :
            /\ \A i \in ImageIndices : returned[p].assets[i].parse \in { 0, p }
            /\ \A t \in 1..Len(returned[p].result) : returned[p].result[t].parse = p
            /\ \A i \in 1..Len(returned[p].meshGroup) :
                /\ returned[p].meshGroup[i].mesh.parse = p
                /\ returned[p].meshGroup[i].vertexBuffer.parse \in { 0, p }

\* both calls are done, their loads interleaved, both used their caches for the
\* same image and the same primitive hash
C25_Witness ==
    /\ callPc = "parses"
    /\ \A p \in Parses :
        /\ returned[p].st = "done"
        /\ args[p].textures = <<1, 1>>
        /\ Len(returned[p].meshGroup) = 2
        /\ returned[p].meshGroup[2].mesh = Object(p, 1)
    /\ returned[1].result[2] = Object(1, 1)
    /\ returned[2].result[1] = Object(2, 2)

(***************************************************************************)
(* SpecMorph: createMeshGroups on meshes with morph targets.  args is      *)
(* gltf.meshes: for every mesh its weights and extras.targetNames (absent  *)
(* or a list) and its primitives; a primitive is its descriptor, which     *)
(* says whether it has a morph target.  returned is the mesh groups.       *)
(***************************************************************************)
Absent == [present |-> FALSE, list |-> <<>>]
Given(list) == [present |-> TRUE, list |-> list]
NoMorph == [targets |-> FALSE, name |-> "none", defaultWeight |-> 0]

\* lines 792-836: the morph of the mesh built for a primitive of gltfMesh: the
\* target's name from gltfMesh.extras.targetNames or its index, its default
\* weight from gltfMesh.weights (0 when there are none)
BuildMorph(gltfMesh, primitive) ==
    IF ~primitive.targets THEN NoMorph
    ELSE [targets |-> TRUE,
          name |-> IF gltfMesh.targetNames.present THEN gltfMesh.targetNames.list[1]
                   ELSE "0",
          defaultWeight |-> IF gltfMesh.weights.present THEN gltfMesh.weights.list[1]
                            ELSE 0]

\* lines 641-653 and 838-844: the forEach of createMeshGroup over the primitives
\* of mesh mi, from primitive pi, with meshByPrimitiveHash in st.cache
RECURSIVE MorphMeshGroup(_, _, _, _)
MorphMeshGroup(st, gltfMesh, mi, pi) ==
    IF pi > Len(gltfMesh.primitives) THEN st
    ELSE LET primitive == gltfMesh.primitives[pi]
             hit == { e \in st.cache : e.hash = primitive.hash }
             mesh == IF hit # {} THEN (CHOOSE e \in hit : TRUE).mesh
                     ELSE [id |-> <<mi, pi>>, morph |-> BuildMorph(gltfMesh, primitive)]
         IN  MorphMeshGroup(
                [groups |-> Append(st.groups,
                                   [mesh |-> mesh, owner |-> mi, primitive |-> pi,
                                    materialIndex |-> primitive.material]),
                 cache |-> st.cache \cup { [hash |-> primitive.hash, mesh |-> mesh] }],
                gltfMesh, mi, pi + 1)

RECURSIVE MorphMeshGroups(_, _, _)
MorphMeshGroups(st, meshes, mi) ==
    IF mi > Len(meshes) THEN st
    ELSE MorphMeshGroups(MorphMeshGroup(st, meshes[mi], mi, 1), meshes, mi + 1)

\* a primitive's hash is its descriptor without the material
MorphPrimitives ==
    { [hash |-> h, targets |-> (h = "targets"), material |-> m] :
        h \in { "plain", "targets" }, m \in 0..1 }
MorphMeshes ==
    { [weights |-> w, targetNames |-> n, primitives |-> ps] :
        w \in { Absent, Given(<<1>>) },
        n \in { Absent, Given(<<"smile">>) },
        ps \in UNION { [1..k -> MorphPrimitives] : k \in 1..2 } }

InitMorph ==
    /\ args \in UNION { [1..k -> MorphMeshes] : k \in 1..2 }
    /\ returned = <<>>
    /\ callPc = "ready"
    /\ ProgramIdle

CreateMorphMeshGroupsCall ==
    /\ callPc = "ready"
    /\ returned' = MorphMeshGroups([groups |-> <<>>, cache |-> {}], args, 1).groups
    /\ callPc' = "done"
    /\ UNCHANGED <<args, programVars>>

NextMorph == CreateMorphMeshGroupsCall

SpecMorph == InitMorph /\ [][NextMorph]_vars

\* C26: a mesh reused from the cache differs from the mesh that would have been
\* built for the primitive only in its material: its morph target names and
\* default weights are those of the primitive's own mesh, also when the cached
\* mesh was built for a primitive of another mesh of the document.
C26_ReusedMeshMorphOfOwnMesh ==
    callPc = "done" =>
        \A i \in 1..Len(returned) :
            returned[i].mesh.morph =
                BuildMorph(args[returned[i].owner],
                           args[returned[i].owner].primitives[returned[i].primitive])

(***************************************************************************)
(* SpecPaths: createAnimations' node paths against createNodes' hierarchy. *)
(* args is gltf.nodes (every node's children list, nodes counted from 1)   *)
(* and, for every animation, the target node of every channel; returned is *)
(* the path of every channel, animationIndicesByNode, and whether the call *)
(* ended with an exception.                                                *)
(***************************************************************************)
\* the last node that lists the target as a child (what C27 rules out)
LastParent(targetNode, nodeList) ==
    LET claimants == { i \in 1..Len(nodeList) :
                        \E j \in 1..Len(nodeList[i]) : nodeList[i][j] = targetNode }
    IN  IF claimants = {} THEN 0
        ELSE CHOOSE i \in claimants : \A k \in claimants : k <= i
\* nodes.findIndex(node => node.children.includes(targetNode)); 0 for -1
FindParent(targetNode, nodeList) ==
    LET claimants == { i \in 1..Len(nodeList) :
                        \E j \in 1..Len(nodeList[i]) : nodeList[i][j] = targetNode }
    IN  IF claimants = {} THEN 0
        ELSE CHOOSE i \in claimants : \A k \in claimants : i <= k

\* getNodePath.  The recursion has no other end than a node without parent; once
\* it is deeper than the number of nodes it has met a node twice and repeats
\* for ever, which the engine ends with a RangeError (stack overflow).
RECURSIVE getNodePath(_, _, _)
getNodePath(targetNode, nodeList, depth) ==
    IF depth > Len(nodeList) THEN [returns |-> FALSE, path |-> <<>>]
    ELSE LET parent == FindParent(targetNode, nodeList)
         IN  IF parent # 0
             THEN LET up == getNodePath(parent, nodeList, depth + 1)
                  IN  [returns |-> up.returns,
                       path |-> IF up.returns THEN Append(up.path, targetNode) ELSE <<>>]
             ELSE [returns |-> TRUE, path |-> <<targetNode>>]

\* targetRootNodes.filter((rootNode, index, rootNodes) => rootNodes.indexOf(rootNode) === index)
WithoutDuplicates(rootNodes) ==
    LET keep == { k \in 1..Len(rootNodes) : \A j \in 1..(k - 1) : rootNodes[j] # rootNodes[k] }
        F[k \in 0..Len(rootNodes)] ==
            IF k = 0 THEN <<>>
            ELSE IF k \in keep THEN Append(F[k - 1], rootNodes[k]) ELSE F[k - 1]
    IN  F[Len(rootNodes)]

\* createAnimations (with the channel loop of createAnimation), from animation a
RECURSIVE createAnimations(_, _, _, _)
createAnimations(st, nodeList, animations, a) ==
    IF a > Len(animations) \/ st.thrown THEN st
    ELSE LET found == [c \in 1..Len(animations[a]) |->
                            getNodePath(animations[a][c], nodeList, 1)]
         IN  IF \E c \in 1..Len(found) : ~found[c].returns
             THEN [st EXCEPT !.thrown = TRUE]
             ELSE LET targetRootNodes ==
                          WithoutDuplicates([c \in 1..Len(found) |-> found[c].path[1]])
                  IN  createAnimations(
                        [st EXCEPT
                            !.paths = Append(@, [c \in 1..Len(found) |-> found[c].path]),
                            !.animationIndicesByNode =
                                [n \in 1..Len(nodeList) |->
                                    IF \E k \in 1..Len(targetRootNodes) :
                                            targetRootNodes[k] = n
                                    THEN Append(@[n], a) ELSE @[n]]],
                        nodeList, animations, a + 1)

InitPaths ==
    /\ \E nodeList \in NodeLists :
        /\ Len(nodeList) >= 1
        /\ \E t1 \in 1..Len(nodeList), t2 \in 1..Len(nodeList), t3 \in 1..Len(nodeList) :
            args = [nodes |-> nodeList, animations |-> << <<t1, t2>>, <<t3>> >>]
    /\ returned = <<>>
    /\ callPc = "ready"
    /\ ProgramIdle

CreateAnimationsCall ==
    /\ callPc = "ready"
    /\ returned' = createAnimations([paths |-> <<>>,
                                     animationIndicesByNode |->
                                            [n \in 1..Len(args.nodes) |-> <<>>],
                                     thrown |-> FALSE,
                                     hierarchy |-> createNodes(args.nodes)],
                                    args.nodes, args.animations, 1)
    /\ callPc' = "done"
    /\ UNCHANGED <<args, programVars>>

NextPaths == CreateAnimationsCall

SpecPaths == InitPaths /\ [][NextPaths]_vars

\* path is the chain of ancestors of its last node in the hierarchy, root first
IsAncestorChain(path, hierarchy) ==
    /\ Len(path) >= 1
    /\ hierarchy.parent[path[1]] = 0
    /\ \A k \in 1..(Len(path) - 1) : hierarchy.parent[path[k + 1]] = path[k]

\* C27: the path computed for a channel is the chain of ancestors of its target
\* in the hierarchy createNodes built, root first and target last, so the node
\* that gets the animation index is the target's hierarchy root, also when a
\* node is listed as a child by several parents; an animation index appears at
\* most once in a node's list.
C27_PathIsAncestorChain ==
    (callPc = "done" /\ ~returned.thrown) =>
        /\ \A a \in 1..Len(returned.paths) : \A c \in 1..Len(returned.paths[a]) :
            LET path == returned.paths[a][c]
            IN  /\ path[Len(path)] = args.animations[a][c]
                /\ IsAncestorChain(path, returned.hierarchy)
                /\ \E k \in 1..Len(returned.animationIndicesByNode[path[1]]) :
                        returned.animationIndicesByNode[path[1]][k] = a
        /\ \A n \in 1..Len(returned.animationIndicesByNode) :
            LET list == returned.animationIndicesByNode[n]
            IN  \A j, k \in 1..Len(list) : list[j] = list[k] => j = k

\* node 3 is listed by node 1 and by node 2, node 2 by node 1; a channel on it
C27_Witness ==
    /\ callPc = "done"
    /\ ~returned.thrown
    /\ args.nodes = << <<2, 3>>, <<3>>, <<>> >>
    /\ args.animations[1] = <<3, 2>>
    /\ returned.paths[1] = << <<1, 3>>, <<1, 2>> >>
    /\ returned.animationIndicesByNode[1] = <<1, 2>>

\* C30: getNodePath terminates with a finite path ending in the target for every
\* target and every node list, also when the children lists hold a
\* self-reference or a cycle, so createAnimation terminates for every document.
C30_GetNodePathTerminates ==
    callPc = "done" => ~returned.thrown

\* C29: objectHashCode leaves its argument as it was: no key is deleted from or
\* reordered in the caller's object (the ignored keys leave an internal sorted
\* copy only), so a hashed primitive still holds its material index.
C29_ArgumentUnchanged ==
    (callPc = "done" /\ "argument" \in DOMAIN returned) =>
        /\ returned.argument = args.a
        /\ Get(returned.argument, K_material) = Get(args.a, K_material)

\* a primitive with a material, keys out of order, hashed without its material
C29_Witness ==
    /\ callPc = "done"
    /\ "argument" \in DOMAIN returned
    /\ Has(args.a, K_material)
    /\ args.ignoreKeys = <<K_material>>
    /\ args.a # getSortedObject(args.a)
    /\ returned.stringA # Stringify(getSortedObject(args.a))
    /\ Get(returned.argument, K_material) = Num(0)

(***************************************************************************)
(* SpecContainer: a container asset through ContainerHandler.patch and     *)
(* ContainerResource.destroy.  args is the bundle the parser returned (how *)
(* many models, materials, animations and texture assets, and which nodes  *)
(* have a model); returned is the ContainerResource, the asset registry,   *)
(* and the calls of assets.add, registry.remove and asset.unload so far.   *)
(***************************************************************************)
NullList == [null |-> TRUE, list |-> <<>>]
List(l) == [null |-> FALSE, list |-> l]
NullAsset == [type |-> "null", of |-> "none", index |-> 0]
SubAsset(type, of, index) == [type |-> type, of |-> of, index |-> index]

\* a patch that keeps container.data (what C28 rules out)
KeepData(bundleData) == bundleData
\* container.data = null
ReleaseData(bundleData) == FALSE

\* new ContainerResource(data)
NewContainer ==
    [data |-> TRUE, models |-> List(<<>>), modelByNode |-> List(<<>>),
     materials |-> List(<<>>), textures |-> List(<<>>), animations |-> List(<<>>),
     registry |-> FALSE]

\* the assets of a list that destroyAssets destroys: if (asset) destroyAsset(asset)
Destroyed(l) == SelectSeq(l.list, LAMBDA asset : asset # NullAsset)

\* ContainerHandler.prototype.patch on the state st
patch(st, bundle) ==
    IF ~st.container.data THEN st
    ELSE LET modelAssets == [i \in 1..bundle.models |-> SubAsset("model", "models", i)]
             modelAssetByNode ==
                [i \in 1..Len(bundle.modelByNode) |->
                    IF bundle.modelByNode[i] THEN SubAsset("model", "modelByNode", i)
                    ELSE NullAsset]
             materialAssets ==
                [i \in 1..bundle.materials |-> SubAsset("material", "materials", i)]
             animationAssets ==
                [i \in 1..bundle.animations |-> SubAsset("animation", "animations", i)]
             created == modelAssets \o Destroyed(List(modelAssetByNode))
                            \o materialAssets \o animationAssets
         IN  [st EXCEPT
                !.container = [data |-> ReleaseData(st.container.data),
                               models |-> List(modelAssets),
                               modelByNode |-> List(modelAssetByNode),
                               materials |-> List(materialAssets),
                               textures |-> List([i \in 1..bundle.textures |->
                                                    SubAsset("texture", "textures", i)]),
                               animations |-> List(animationAssets),
                               registry |-> TRUE],
                !.assets = @ \cup { created[k] : k \in 1..Len(created) },
                !.added = @ \o created]

\* ContainerResource.prototype.destroy on the state st
destroy(st) ==
    LET c == st.container
        gone == Destroyed(c.animations) \o Destroyed(c.models) \o Destroyed(c.modelByNode)
                    \o Destroyed(c.textures) \o Destroyed(c.materials)
    IN  [st EXCEPT
            !.container = [data |-> FALSE, models |-> NullList, modelByNode |-> NullList,
                           materials |-> NullList, textures |-> NullList,
                           animations |-> NullList, registry |-> c.registry],
            !.assets = @ \ { gone[k] : k \in 1..Len(gone) },
            !.removed = @ \o gone,
            !.unloaded = @ \o gone]

InitContainer ==
    /\ \E numModels \in 0..2, numMaterials \in 0..1, numAnimations \in 0..1,
          numTextures \in 0..2, nodeModels \in UNION { [1..n -> BOOLEAN] : n \in 0..2 } :
        /\ args = [models |-> numModels, materials |-> numMaterials,
                   animations |-> numAnimations, textures |-> numTextures,
                   modelByNode |-> nodeModels]
        /\ returned = [container |-> NewContainer,
                       assets |-> { SubAsset("texture", "textures", i) :
                                        i \in 1..numTextures },
                       added |-> <<>>, removed |-> <<>>, unloaded |-> <<>>,
                       patches |-> 0, destroys |-> 0]
    /\ callPc = "container"
    /\ ProgramIdle

PatchCall ==
    /\ callPc = "container"
    /\ returned.patches < 2
    /\ returned' = [patch(returned, args) EXCEPT !.patches = @ + 1]
    /\ UNCHANGED <<args, callPc, programVars>>

DestroyCall ==
    /\ callPc = "container"
    /\ returned.destroys < 2
    /\ returned' = [destroy(returned) EXCEPT !.destroys = @ + 1]
    /\ UNCHANGED <<args, callPc, programVars>>

NextContainer ==
    \/ PatchCall
    \/ DestroyCall

SpecContainer == InitContainer /\ [][NextContainer]_vars

\* the number of sub-assets one patch registers for the bundle
SubAssetCount ==
    args.models + args.materials + args.animations
        + Cardinality({ i \in 1..Len(args.modelByNode) : args.modelByNode[i] })

Occurrences(list, x) == Cardinality({ k \in 1..Len(list) : list[k] = x })

\* C28: patch registers one sub-asset per model, node model, material and
\* animation and releases container.data, so a second patch registers nothing
\* more; destroy then removes from the registry and unloads every asset patch
\* registered and every texture asset of the bundle, leaves the resource lists
\* null, and a second destroy removes nothing more.
C28_ContainerLifecycle ==
    callPc = "container" =>
        LET c == returned.container
        IN  /\ Len(returned.added) = (IF c.registry THEN SubAssetCount ELSE 0)
            /\ \A k \in 1..Len(returned.added) :
                    Occurrences(returned.added, returned.added[k]) = 1
            /\ returned.patches >= 1 => ~c.data
            /\ returned.destroys >= 1 =>
                /\ c.models.null /\ c.modelByNode.null /\ c.materials.null
                /\ c.textures.null /\ c.animations.null /\ ~c.data
                /\ c.registry =>
                    /\ returned.assets = {}
                    /\ Len(returned.removed) = SubAssetCount + args.textures
                    /\ returned.unloaded = returned.removed
                    /\ \A k \in 1..Len(returned.added) :
                            Occurrences(returned.removed, returned.added[k]) = 1
                    /\ \A i \in 1..args.textures :
                            Occurrences(returned.removed,
                                        SubAsset("texture", "textures", i)) = 1

\* patched twice, then destroyed twice, with assets of every kind
C28_Witness ==
    /\ callPc = "container"
    /\ returned.patches = 2 /\ returned.destroys = 2
    /\ returned.container.registry
    /\ args.models = 2 /\ args.materials = 1 /\ args.animations = 1 /\ args.textures = 2
    /\ args.modelByNode = <<TRUE, FALSE>>
    /\ Len(returned.added) = 5
    /\ Len(returned.removed) = 7
====
